---- MODULE Spec2Model ----
(***************************************************************************)
(* Restock monitor (Cloudflare Worker): probe engine, per-target state     *)
(* machine, notification fan-out and check orchestrator, modelled from     *)
(* src/src/monitor.ts, src/src/state.ts, src/src/utils.ts and the          *)
(* notifier module.                                                        *)
(***************************************************************************)
EXTENDS Integers, Sequences, FiniteSets, TLC

(***************************************************************************)
(* Bounds of the model.                                                    *)
(***************************************************************************)
\* Largest value of the wall clock (seconds); the clock starts at 1.
MaxTime == 2
\* Largest number of configured notification channels.
MaxChannels == 2
\* Cap on errStreak: no further ERROR outcome is explored beyond it.
MaxErrStreak == 3

Null == "null"

(***************************************************************************)
(* Page contents.  A string is the set of phrases that occur in it; the    *)
(* empty set is the empty string.  An html value is null or a string.      *)
(***************************************************************************)
\* String.prototype.toLowerCase on the phrases that occur in pages and patterns.
toLowerCase(s) ==
    CASE s = "Shopping Cart" -> "shopping cart"
      [] s = "Out of Stock" -> "out of stock"
      [] s = "Access Denied" -> "access denied"
      [] OTHER -> s

\* html.toLowerCase().includes(keyword.toLowerCase())
includesLower(html, keyword) == \E p \in html.text : toLowerCase(p) = toLowerCase(keyword)

sanityOk(html, mustContainAny) == \E keyword \in mustContainAny : includesLower(html, keyword)

\* RegExp.prototype.test for a literal pattern, with or without the i flag.
regexTest(pattern, html) ==
    \E p \in html.text : IF pattern.flags = "i" THEN toLowerCase(p) = toLowerCase(pattern.source)
                                            ELSE p = pattern.source

matchAnyRegex(html, patterns) == \E pattern \in patterns : regexTest(pattern, html)

(***************************************************************************)
(* Target descriptors (the built-in list: one target with a fallback URL,  *)
(* one with a single URL).                                                 *)
(***************************************************************************)
TARGETS == <<
    [name |-> "A", urls |-> <<"a1", "a2">>,
     mustContainAny |-> {"Shopping Cart"},
     outOfStockRegex |-> {[source |-> "Out of Stock", flags |-> "i"]}],
    [name |-> "B", urls |-> <<"b1">>,
     mustContainAny |-> {"Shopping Cart"},
     outOfStockRegex |-> {[source |-> "Out of Stock", flags |-> "i"]}] >>

Names == {TARGETS[i].name : i \in DOMAIN TARGETS}

(***************************************************************************)
(* fetchUrl: what one fetch of a URL can return.                           *)
(***************************************************************************)
NullHtml == [null |-> TRUE, text |-> {}]
PageCart == [null |-> FALSE, text |-> {"shopping cart"}]
PageOut == [null |-> FALSE, text |-> {"Shopping Cart", "out of stock"}]
PageBlock == [null |-> FALSE, text |-> {"Access Denied"}]
PageEmpty == [null |-> FALSE, text |-> {}]

FetchResults ==
    { [html |-> NullHtml, status |-> 0],      \* network error or timeout
      [html |-> NullHtml, status |-> 503],    \* response not ok
      [html |-> PageEmpty, status |-> 200],   \* ok, empty body
      [html |-> PageBlock, status |-> 200],
      [html |-> PageOut, status |-> 200],
      [html |-> PageCart, status |-> 200] }

\* `${status || 'error'}`
statusText(status) == IF status = 0 THEN "error" ELSE IF status = 503 THEN "503" ELSE "200"

\* !html : null and the empty string are both falsy.
noBody(html) == html.null \/ html.text = {}

(***************************************************************************)
(* probeTarget.  reads[i][j] is what the j-th fetch of the i-th URL        *)
(* returns (j = 1 the first read, j = 2 the confirmation read).            *)
(***************************************************************************)
RECURSIVE probeFrom(_, _, _, _, _)
probeFrom(target, reads, i, lastReason, lastUsedUrl) ==
    IF i > Len(target.urls)
    THEN [ok |-> FALSE, status |-> "ERROR", usedUrl |-> lastUsedUrl, reason |-> lastReason]
    ELSE
      LET url == target.urls[i]
          r1 == reads[i][1]
          r2 == reads[i][2]
      IN  IF noBody(r1.html)
          THEN probeFrom(target, reads, i + 1, <<"http_", statusText(r1.status)>>, url)
          ELSE IF ~sanityOk(r1.html, target.mustContainAny)
          THEN probeFrom(target, reads, i + 1, <<"sanity_failed@", url>>, url)
          ELSE IF matchAnyRegex(r1.html, target.outOfStockRegex)
          THEN [ok |-> TRUE, status |-> "OUT", usedUrl |-> url, reason |-> <<"out_of_stock_keyword">>]
          ELSE IF noBody(r2.html)
          THEN probeFrom(target, reads, i + 1, <<"confirm_http_", statusText(r2.status)>>, url)
          ELSE IF ~sanityOk(r2.html, target.mustContainAny)
          THEN probeFrom(target, reads, i + 1, <<"confirm_sanity_failed@", url>>, url)
          ELSE IF matchAnyRegex(r2.html, target.outOfStockRegex)
          THEN [ok |-> TRUE, status |-> "OUT", usedUrl |-> url, reason |-> <<"flap_back_to_out">>]
          ELSE [ok |-> TRUE, status |-> "IN", usedUrl |-> url, reason |-> <<"confirmed_in_stock">>]

probeTarget(target, reads) == probeFrom(target, reads, 1, <<"fetch_failed">>, Null)

\* The fetch results the runs of the orchestrator are explored with: a failed
\* fetch, a block page, an out-of-stock page, a purchasable page.
RunFetchResults == {r \in FetchResults : r.status # 503 /\ r.html # PageEmpty}

\* Every assignment of these fetch results to the reads of a target's URLs.
ReadsOf(target) == [1..Len(target.urls) -> [1..2 -> RunFetchResults]]

\* The probe results a target can produce in a run.
ProbeResults == [i \in DOMAIN TARGETS |-> {probeTarget(TARGETS[i], reads) : reads \in ReadsOf(TARGETS[i])}]

(***************************************************************************)
(* Configuration: utils.ts.                                                *)
(***************************************************************************)
max2(a, b) == IF a >= b THEN a ELSE b
min2(a, b) == IF a <= b THEN a ELSE b

clampInt(value, min, max) == min2(max2(value, min), max)

\* The tunables one deployment can run with (already clamped by runCheck).
InConfirmationsChoices == {1, 3}
ErrorThresholdChoices == {2}
ErrorCooldownChoices == {0, 1}

CheckConfigs ==
    [inConfirmationsRequired : {clampInt(v, 1, 10) : v \in InConfirmationsChoices},
     errorStreakNotifyThreshold : {clampInt(v, 1, 100) : v \in ErrorThresholdChoices},
     errorNotifyCooldownSec : {clampInt(v, 0, 86400) : v \in ErrorCooldownChoices}]

(***************************************************************************)
(* Notification fan-out: notifiers.ts.                                     *)
(***************************************************************************)
AllNotifiers == <<"TelegramNotifier", "FeishuNotifier", "DingTalkNotifier">>

\* buildNotifiers: the channels whose environment variables are set.
buildNotifiers(n) == SubSeq(AllNotifiers, 1, min2(n, Len(AllNotifiers)))

\* What Promise.allSettled can report for the sends of one fan-out.
SettledOf(notifiers) == [1..Len(notifiers) -> {"fulfilled", "rejected"}]

\* The indices of the rejected sends, in channel order (settled.forEach).
RECURSIVE rejectedFrom(_, _, _)
rejectedFrom(notifiers, settled, i) ==
    IF i > Len(notifiers) THEN <<>>
    ELSE (IF settled[i] = "rejected" THEN <<notifiers[i]>> ELSE <<>>)
         \o rejectedFrom(notifiers, settled, i + 1)

\* Faulty variant of notifyAll: every channel is counted as sent.
notifyAllCountingAttempts(notifiers, settled) ==
    [attempted |-> Len(notifiers), sent |-> Len(notifiers),
     failed |-> Len(rejectedFrom(notifiers, settled, 1)), errors |-> rejectedFrom(notifiers, settled, 1)]

notifyAll(notifiers, settled) ==
    IF Len(notifiers) = 0
    THEN [attempted |-> 0, sent |-> 0, failed |-> 0, errors |-> <<>>]
    ELSE LET errors == rejectedFrom(notifiers, settled, 1)
             sent == Cardinality({i \in 1..Len(notifiers) : settled[i] = "fulfilled"})
         IN  [attempted |-> Len(notifiers), sent |-> sent, failed |-> Len(errors), errors |-> errors]

(***************************************************************************)
(* Target state machine: the body of runCheck's loop.                      *)
(***************************************************************************)
getDefaultTargetState ==
    [status |-> "OUT", inSinceTs |-> 0, inStreak |-> 0, errStreak |-> 0,
     lastErrNotifyTs |-> 0, lastInNotifyAttemptTs |-> 0, lastInNotifyOkTs |-> 0,
     lastUsedUrl |-> Null, lastReason |-> <<>>, ts |-> 0]

\* Faulty variant of withDefaults: a stored record that lacks a field is
\* dropped for the defaults.
withDefaultsOrNothing(st, name) ==
    IF name \in DOMAIN st /\ DOMAIN st[name] = DOMAIN getDefaultTargetState
    THEN st[name]
    ELSE getDefaultTargetState

\* { ...defaultState, ...state[name] } : every field of the defaults, with
\* the value of the saved record where the saved record has the field.
withDefaults(st, name) ==
    IF name \notin DOMAIN st THEN getDefaultTargetState
    ELSE [f \in DOMAIN getDefaultTargetState |->
            IF f \in DOMAIN st[name] THEN st[name][f] ELSE getDefaultTargetState[f]]

\* The mutable locals taken from the record (StateContext).
contextOf(s) ==
    [prevStatus |-> s.status, inSinceTs |-> s.inSinceTs, inStreak |-> s.inStreak,
     errStreak |-> s.errStreak, lastErrNotifyTs |-> s.lastErrNotifyTs,
     lastInNotifyAttemptTs |-> s.lastInNotifyAttemptTs,
     lastInNotifyOkTs |-> s.lastInNotifyOkTs]

\* Faulty variant of errorAlertDue: the cooldown is not consulted.
errorAlertDueNoCooldown(errStreak, lastErrNotifyTs, now, config) ==
    errStreak >= config.errorStreakNotifyThreshold

\* errStreak >= errorStreakNotifyThreshold && now - lastErrNotifyTs >= errorNotifyCooldownSec
errorAlertDue(errStreak, lastErrNotifyTs, now, config) ==
    /\ errStreak >= config.errorStreakNotifyThreshold
    /\ now - lastErrNotifyTs >= config.errorNotifyCooldownSec

\* Faulty variant of handleProbeError: a delivered alert restarts the streak.
handleProbeErrorResetting(ctx, result, name, now, config, notifiers, settled) ==
    LET errStreak == ctx.errStreak + 1
        due == errorAlertDue(errStreak, ctx.lastErrNotifyTs, now, config)
        notifyResult == notifyAll(notifiers, settled)
    IN  [ctx |-> [ctx EXCEPT !.errStreak = IF due /\ notifyResult.sent > 0 THEN 0 ELSE errStreak,
                             !.lastErrNotifyTs = IF due /\ notifyResult.sent > 0 THEN now ELSE @],
         changes |-> <<>>,
         calls |-> IF due THEN <<[kind |-> "error", name |-> name, result |-> notifyResult]>>
                          ELSE <<>>]

\* Faulty variant of handleProbeError: exhaustion is recorded as OUT.
handleProbeErrorAsOut(ctx, result, name, now, config, notifiers, settled) ==
    LET errStreak == ctx.errStreak + 1
        due == errorAlertDue(errStreak, ctx.lastErrNotifyTs, now, config)
        notifyResult == notifyAll(notifiers, settled)
    IN  [ctx |-> [ctx EXCEPT !.errStreak = errStreak,
                             !.prevStatus = "OUT", !.inSinceTs = 0,
                             !.lastErrNotifyTs = IF due /\ notifyResult.sent > 0 THEN now ELSE @],
         changes |-> <<>>,
         calls |-> IF due THEN <<[kind |-> "error", name |-> name, result |-> notifyResult]>>
                          ELSE <<>>]

\* Faulty variant of handleProbeError: an alert that reached no channel
\* starts the cooldown too.
handleProbeErrorStartingCooldown(ctx, result, name, now, config, notifiers, settled) ==
    LET errStreak == ctx.errStreak + 1
        due == errorAlertDue(errStreak, ctx.lastErrNotifyTs, now, config)
        notifyResult == notifyAll(notifiers, settled)
    IN  [ctx |-> [ctx EXCEPT !.errStreak = errStreak,
                             !.lastErrNotifyTs = IF due THEN now ELSE @],
         changes |-> <<>>,
         calls |-> IF due THEN <<[kind |-> "error", name |-> name, result |-> notifyResult]>>
                          ELSE <<>>]

\* result.status === 'ERROR'
handleProbeError(ctx, result, name, now, config, notifiers, settled) ==
    LET errStreak == ctx.errStreak + 1
        due == errorAlertDue(errStreak, ctx.lastErrNotifyTs, now, config)
        notifyResult == notifyAll(notifiers, settled)
    IN  [ctx |-> [ctx EXCEPT !.errStreak = errStreak,
                             !.lastErrNotifyTs = IF due /\ notifyResult.sent > 0 THEN now ELSE @],
         changes |-> <<>>,
         calls |-> IF due THEN <<[kind |-> "error", name |-> name, result |-> notifyResult]>>
                          ELSE <<>>]

\* Faulty variant of handleOutOfStock: inSinceTs is not cleared.
handleOutOfStockKeepingSince(ctx, result, name) ==
    [ctx |-> [ctx EXCEPT !.inStreak = 0, !.prevStatus = "OUT"],
     changes |-> IF ctx.prevStatus # "OUT"
                 THEN <<[name |-> name, from |-> "IN", to |-> "OUT", usedUrl |-> result.usedUrl]>>
                 ELSE <<>>,
     calls |-> <<>>]

\* Faulty variant of handleOutOfStock: every OUT outcome is reported as a
\* change.
handleOutOfStockAlwaysReporting(ctx, result, name) ==
    [ctx |-> [ctx EXCEPT !.inStreak = 0, !.prevStatus = "OUT", !.inSinceTs = 0],
     changes |-> <<[name |-> name, from |-> "IN", to |-> "OUT", usedUrl |-> result.usedUrl]>>,
     calls |-> <<>>]

\* result.status === 'OUT'
handleOutOfStock(ctx, result, name) ==
    [ctx |-> [ctx EXCEPT !.inStreak = 0, !.prevStatus = "OUT", !.inSinceTs = 0],
     changes |-> IF ctx.prevStatus # "OUT"
                 THEN <<[name |-> name, from |-> "IN", to |-> "OUT", usedUrl |-> result.usedUrl]>>
                 ELSE <<>>,
     calls |-> <<>>]

\* Faulty variant of confirmationsReached: the first IN probe is enough.
confirmationsReachedAtFirst(inStreak, config) == inStreak >= 1

\* inStreak >= inConfirmationsRequired
confirmationsReached(inStreak, config) == inStreak >= config.inConfirmationsRequired

\* Faulty variant of retryDue: <= in place of <.
retryDueInclusive(ctx, notifiers) == Len(notifiers) > 0 /\ ctx.lastInNotifyOkTs <= ctx.inSinceTs

\* notifiers.length > 0 && lastInNotifyOkTs < inSinceTs
retryDue(ctx, notifiers) == Len(notifiers) > 0 /\ ctx.lastInNotifyOkTs < ctx.inSinceTs

\* Faulty variant of inNotifyOkTs: the attempt is recorded as a success.
inNotifyOkTsAlways(old, notifyResult, now) == now

\* if (notifyResult.sent > 0) lastInNotifyOkTs = now
inNotifyOkTs(old, notifyResult, now) == IF notifyResult.sent > 0 THEN now ELSE old

\* Faulty variant of streakWhileIn: the streak is set to the threshold.
streakWhileInLowered(inStreak, config) == config.inConfirmationsRequired

\* inStreak = Math.max(inStreak, inConfirmationsRequired)
streakWhileIn(inStreak, config) == max2(inStreak, config.inConfirmationsRequired)

\* Faulty variant of handleInStock: the alert is sent on every IN probe of a
\* target that is OUT, before the threshold is consulted.
handleInStockEager(ctx, result, name, now, config, notifiers, settled) ==
    LET notifyResult == notifyAll(notifiers, settled)
        okTs(old) == inNotifyOkTs(old, notifyResult, now)
    IN  IF ctx.prevStatus = "OUT"
        THEN LET inStreak == ctx.inStreak + 1
                 reached == confirmationsReached(inStreak, config)
             IN  [ctx |-> [ctx EXCEPT !.inStreak = inStreak,
                                      !.prevStatus = IF reached THEN "IN" ELSE @,
                                      !.inSinceTs = IF reached THEN now ELSE @,
                                      !.lastInNotifyAttemptTs = now,
                                      !.lastInNotifyOkTs = okTs(@)],
                  changes |-> IF reached
                              THEN <<[name |-> name, from |-> "OUT", to |-> "IN", usedUrl |-> result.usedUrl]>>
                              ELSE <<>>,
                  calls |-> <<[kind |-> "restock", name |-> name, result |-> notifyResult]>>]
        ELSE LET inStreak == streakWhileIn(ctx.inStreak, config)
             IN  IF retryDue(ctx, notifiers)
                 THEN [ctx |-> [ctx EXCEPT !.inStreak = inStreak, !.prevStatus = "IN",
                                           !.lastInNotifyAttemptTs = now,
                                           !.lastInNotifyOkTs = okTs(@)],
                       changes |-> <<>>,
                       calls |-> <<[kind |-> "restock_retry", name |-> name, result |-> notifyResult]>>]
                 ELSE [ctx |-> [ctx EXCEPT !.inStreak = inStreak, !.prevStatus = "IN"],
                       changes |-> <<>>, calls |-> <<>>]

\* result.status === 'IN'
handleInStock(ctx, result, name, now, config, notifiers, settled) ==
    LET notifyResult == notifyAll(notifiers, settled)
        okTs(old) == inNotifyOkTs(old, notifyResult, now)
    IN  IF ctx.prevStatus = "OUT"
        THEN LET inStreak == ctx.inStreak + 1
             IN  IF confirmationsReached(inStreak, config)
                 THEN [ctx |-> [ctx EXCEPT !.inStreak = inStreak,
                                           !.prevStatus = "IN", !.inSinceTs = now,
                                           !.lastInNotifyAttemptTs = now,
                                           !.lastInNotifyOkTs = okTs(@)],
                       changes |-> <<[name |-> name, from |-> "OUT", to |-> "IN", usedUrl |-> result.usedUrl]>>,
                       calls |-> <<[kind |-> "restock", name |-> name, result |-> notifyResult]>>]
                 ELSE [ctx |-> [ctx EXCEPT !.inStreak = inStreak],
                       changes |-> <<>>, calls |-> <<>>]
        ELSE LET inStreak == streakWhileIn(ctx.inStreak, config)
             IN  IF retryDue(ctx, notifiers)
                 THEN [ctx |-> [ctx EXCEPT !.inStreak = inStreak, !.prevStatus = "IN",
                                           !.lastInNotifyAttemptTs = now,
                                           !.lastInNotifyOkTs = okTs(@)],
                       changes |-> <<>>,
                       calls |-> <<[kind |-> "restock_retry", name |-> name, result |-> notifyResult]>>]
                 ELSE [ctx |-> [ctx EXCEPT !.inStreak = inStreak, !.prevStatus = "IN"],
                       changes |-> <<>>, calls |-> <<>>]

\* state[name] = { status: prevStatus, ..., lastUsedUrl, lastReason, ts: now }
buildTargetState(ctx, result, now) ==
    [status |-> ctx.prevStatus, inSinceTs |-> ctx.inSinceTs, inStreak |-> ctx.inStreak,
     errStreak |-> ctx.errStreak, lastErrNotifyTs |-> ctx.lastErrNotifyTs,
     lastInNotifyAttemptTs |-> ctx.lastInNotifyAttemptTs,
     lastInNotifyOkTs |-> ctx.lastInNotifyOkTs,
     lastUsedUrl |-> result.usedUrl, lastReason |-> result.reason, ts |-> now]

\* Faulty variant of handleResult: a successful probe also forgets the last
\* delivered error alert.
handleResultClearingCooldown(s, result, name, now, config, notifiers, settled) ==
    LET ctx == contextOf(s)
        cleared == [ctx EXCEPT !.errStreak = 0, !.lastErrNotifyTs = 0]
    IN  CASE result.status = "ERROR" -> handleProbeError(ctx, result, name, now, config, notifiers, settled)
          [] result.status = "OUT" -> handleOutOfStock(cleared, result, name)
          [] result.status = "IN" -> handleInStock(cleared, result, name, now, config, notifiers, settled)

\* One iteration of runCheck's loop: the branch on result.status.
handleResult(s, result, name, now, config, notifiers, settled) ==
    LET ctx == contextOf(s)
        cleared == [ctx EXCEPT !.errStreak = 0]
    IN  CASE result.status = "ERROR" -> handleProbeError(ctx, result, name, now, config, notifiers, settled)
          [] result.status = "OUT" -> handleOutOfStock(cleared, result, name)
          [] result.status = "IN" -> handleInStock(cleared, result, name, now, config, notifiers, settled)

(***************************************************************************)
(* State persistence: state.ts.  The KV value under key 'state' is absent  *)
(* or a text: the JSON of an object (the map name -> record), the JSON of   *)
(* something else, or no JSON at all.                                       *)
(***************************************************************************)
AbsentBlob == [kind |-> "absent", value |-> <<>>]

\* JSON.stringify(state)
stringify(st) == [kind |-> "object", value |-> st]

\* Faulty variant of loadState: whatever the stored text holds is taken as
\* the map.
loadStateLenient(stored) == stored.value

\* get('state'), JSON.parse, and the test for a non-array object.
loadState(stored) == IF stored.kind = "object" THEN stored.value ELSE <<>>

\* put('state', JSON.stringify(state))
saveState(st) == stringify(st)

\* Faulty variant of assign: the record is written under every name of the map.
assignToAll(st, name, rec) == [n \in DOMAIN st \cup {name} |-> rec]

\* The map st with the record of name replaced or added (state[name] = ...).
assign(st, name, rec) == [n \in DOMAIN st \cup {name} |-> IF n = name THEN rec ELSE st[n]]

(***************************************************************************)
(* The system: the KV store, the wall clock, the deployment's environment, *)
(* and one runCheck at a time.                                             *)
(***************************************************************************)
VARIABLES
    kv,           \* the persisted snapshot (KV key 'state')
    clock,        \* Math.floor(Date.now() / 1000)
    config,       \* the clamped tunables of the deployment
    notifiers,    \* buildNotifiers(env)
    targets,      \* getTargets(env): indices into TARGETS, in list order
    pc,           \* "idle" | "loop" : where runCheck is
    state,        \* runCheck's in-memory map
    now,          \* runCheck's timestamp
    idx,          \* index of the next target of the loop
    changes,      \* runCheck's change events
    results,      \* the probe result of each target processed in this run
    outbox,       \* the notifyAll calls made in this run, in order
    history,      \* per name, what has happened to the target so far (see historyAfter)
    ret,          \* how the latest runCheck ended, once it has (see Returned, Threw)
    response,     \* the body of the latest GET /status, until it is sent
    probe,        \* one probeTarget call, read by read
    fanout,       \* one notifyAll call, send by send
    runs,        \* the runCheck instances that can overlap
    env,          \* the bindings of the deployment that are text (see DefaultEnv)
    request       \* the invocation of the worker being handled

vars == <<kv, clock, config, notifiers, targets, pc, state, now, idx, changes, results, outbox, history,
          ret, response, probe, fanout, runs, env, request>>

\* The text runCheck returns, without its timestamp prefix: the change
\* events joined by newlines under 'State changes:', or 'OK - no changes'.
summary(events) ==
    IF Len(events) > 0 THEN [head |-> "State changes:", lines |-> events]
    ELSE [head |-> "OK - no changes", lines |-> <<>>]

\* No runCheck has ended since the latest one started; runCheck returned
\* msg; runCheck threw.
NoRet == [kind |-> "none", msg |-> <<>>]
Returned(msg) == [kind |-> "returned", msg |-> msg]
Threw == [kind |-> "threw", msg |-> <<>>]

\* The text bindings as they are when nothing is configured.
DefaultEnv == [ADMIN_TOKEN |-> <<>>]

\* No invocation is being handled.
NoRequest == [trigger |-> "none"]

\* Nothing has happened to a target yet.
NoHistory == [ok |-> FALSE, resent |-> FALSE, errors |-> 0, flipTs |-> 0, errOkTs |-> 0, errFailed |-> FALSE]

\* No /status request in progress, no probe, fan-out or overlapping run observed.
NoResponse == [sent |-> TRUE, body |-> <<>>]
ProbeOff == [stage |-> "off"]
FanoutOff == [stage |-> "off"]
NoRuns == <<>>
aside == <<response, probe, fanout, runs, env, request>>

loopDoneEarly(i, list) == i >= Len(list)

\* for (const target of targets): the loop is over after the last target.
loopDone(i, list) == i > Len(list)

targetAtReversed(list, i) == TARGETS[list[Len(list) + 1 - i]]

\* for (const target of targets): the target of the i-th iteration.
targetAt(list, i) == TARGETS[list[i]]

\* A fresh deployment: nothing stored, one configuration, a target list of
\* one target (the built-in target with a fallback URL).
Init ==
    /\ kv = AbsentBlob
    /\ clock = 1
    /\ config \in CheckConfigs
    /\ notifiers \in {buildNotifiers(n) : n \in 0..MaxChannels}
    /\ targets = <<1>>
    /\ pc = "idle"
    /\ state = <<>>
    /\ now = 0
    /\ idx = 1
    /\ changes = <<>>
    /\ results = <<>>
    /\ outbox = <<>>
    /\ history = [n \in Names |-> NoHistory]
    /\ ret = NoRet
    /\ env = DefaultEnv
    /\ request = NoRequest
    /\ response = NoResponse
    /\ probe = ProbeOff
    /\ fanout = FanoutOff
    /\ runs = NoRuns

\* Time passes between two runs.
Tick ==
    /\ pc = "idle"
    /\ clock < MaxTime
    /\ clock' \in (clock + 1)..MaxTime
    /\ UNCHANGED <<kv, config, notifiers, targets, pc, state, now, idx, changes, results, outbox, history>>
    /\ UNCHANGED <<ret, aside>>

\* runCheck up to its loop: load the snapshot, read the clock.
loadStep ==
    /\ pc = "idle"
    /\ pc' = "loop"
    /\ state' = loadState(kv)
    /\ now' = clock
    /\ idx' = 1
    /\ changes' = <<>>
    /\ results' = <<>>
    /\ outbox' = <<>>
    /\ ret' = NoRet
    /\ UNCHANGED <<kv, clock, config, notifiers, targets, history>>

RunCheckLoad == loadStep /\ UNCHANGED aside

\* History, per name: ok = a restock alert has reached a channel since the
\* latest OUT -> IN; resent = a restock alert was sent again after that;
\* errors = the number of consecutive ERROR outcomes up to the latest run;
\* flipTs = the timestamp of the run of the latest OUT -> IN, 0 while OUT;
\* errOkTs = the timestamp of the latest run whose error alert reached a
\* channel, 0 when there was none; errFailed = the latest run made an error
\* fan-out that reached no channel.
historyAfter(h, s, result, out, ts) ==
    LET restock == \E i \in DOMAIN out.calls : out.calls[i].kind \in {"restock", "restock_retry"}
        sent == \E i \in DOMAIN out.calls : out.calls[i].result.sent > 0
        errors == IF result.status = "ERROR" THEN h.errors + 1 ELSE 0
        errOkTs == IF \E i \in DOMAIN out.calls : out.calls[i].kind = "error" /\ out.calls[i].result.sent > 0
                   THEN ts ELSE h.errOkTs
        errFailed == \E i \in DOMAIN out.calls : out.calls[i].kind = "error" /\ out.calls[i].result.sent = 0
    IN  IF out.ctx.prevStatus = "OUT"
        THEN [ok |-> FALSE, resent |-> FALSE, errors |-> errors, flipTs |-> 0, errOkTs |-> errOkTs, errFailed |-> errFailed]
        ELSE IF s.status = "OUT"
        THEN [ok |-> restock /\ sent, resent |-> FALSE, errors |-> errors, flipTs |-> ts, errOkTs |-> errOkTs, errFailed |-> errFailed]
        ELSE [ok |-> h.ok \/ (restock /\ sent), resent |-> h.resent \/ (h.ok /\ restock),
              errors |-> errors, flipTs |-> h.flipTs, errOkTs |-> errOkTs, errFailed |-> errFailed]

\* Faulty variant of escapes: a probe that fails, or a channel that fails,
\* throws out of the loop.
escapesOnFailure(result, calls) ==
    \/ result.status = "ERROR"
    \/ \E c \in DOMAIN calls : calls[c].result.failed > 0

\* Whether an exception leaves the loop body: fetchUrl catches whatever its
\* fetch throws and returns status 0, and notifyAll awaits
\* Promise.allSettled, which does not reject.
escapes(result, calls) == FALSE

\* One iteration of the loop: probe the target, apply the result, notify.
\* probes gives, per target, the results its probe can have.
loopStep(probes) ==
    /\ pc = "loop"
    /\ ~loopDone(idx, targets)
    /\ LET target == targetAt(targets, idx)
           name == target.name
           s == withDefaults(state, name)
       IN  \E result \in probes[targets[idx]], settled \in SettledOf(notifiers) :
             /\ result.status = "ERROR" => (s.errStreak < MaxErrStreak /\ history[name].errors < MaxErrStreak)
             /\ LET out == handleResult(s, result, name, now, config, notifiers, settled)
                IN  IF escapes(result, out.calls)
                    THEN /\ pc' = "idle"
                         /\ ret' = Threw
                         /\ state' = <<>>
                         /\ idx' = 1
                         /\ changes' = <<>>
                         /\ outbox' = <<>>
                         /\ results' = <<>>
                         /\ UNCHANGED history
                    ELSE /\ state' = assign(state, name, buildTargetState(out.ctx, result, now))
                         /\ changes' = changes \o out.changes
                         /\ outbox' = outbox \o out.calls
                         /\ results' = Append(results, result)
                         /\ history' = [history EXCEPT ![name] = historyAfter(@, s, result, out, now)]
                         /\ idx' = idx + 1
                         /\ UNCHANGED <<pc, ret>>
    /\ UNCHANGED <<kv, clock, config, notifiers, targets, now>>

RunCheckTargetWith(probes) == loopStep(probes) /\ UNCHANGED aside

RunCheckTarget == RunCheckTargetWith(ProbeResults)

\* The end of runCheck: one write of the whole map.
RunCheckSave ==
    /\ pc = "loop"
    /\ loopDone(idx, targets)
    /\ kv' = saveState(state)
    /\ ret' = Returned(summary(changes))
    /\ pc' = "idle"
    /\ state' = <<>>
    /\ idx' = 1
    /\ changes' = <<>>
    /\ results' = <<>>
    /\ outbox' = <<>>
    /\ UNCHANGED <<clock, config, notifiers, targets, now, history>>
    /\ UNCHANGED aside

Next == Tick \/ RunCheckLoad \/ RunCheckTarget \/ RunCheckSave

Spec == Init /\ [][Next]_vars

(***************************************************************************)
(* Vocabulary of the properties.  While a run is in its loop, the targets  *)
(* at positions 1..idx-1 have been processed: the snapshot kv still holds  *)
(* the record each started from, state holds the record each ended with.   *)
(***************************************************************************)
Processed == IF pc = "loop" THEN 1..(idx - 1) ELSE {}

nameAt(i) == TARGETS[targets[i]].name
priorAt(i) == withDefaults(loadState(kv), nameAt(i))
newAt(i) == state[nameAt(i)]
resultAt(i) == results[i]

callsFor(name) == SelectSeq(outbox, LAMBDA c : c.name = name)
restockCallsFor(name) == SelectSeq(outbox, LAMBDA c : c.name = name /\ c.kind \in {"restock", "restock_retry"})
errorCallsFor(name) == SelectSeq(outbox, LAMBDA c : c.name = name /\ c.kind = "error")
eventsFor(name) == SelectSeq(changes, LAMBDA e : e.name = name)

\* C1: status goes OUT -> IN only in a run whose prior status is OUT, whose
\* probe outcome is IN and whose incremented inStreak has reached
\* inConfirmationsRequired; with a threshold above 1, a target starting from
\* the zero defaults is not IN after one IN probe.
C1_FlipOnlyWhenConfirmed ==
    \A i \in Processed :
        /\ (priorAt(i).status = "OUT" /\ newAt(i).status = "IN") =>
              /\ resultAt(i).status = "IN"
              /\ newAt(i).inStreak = priorAt(i).inStreak + 1
              /\ newAt(i).inStreak >= config.inConfirmationsRequired
        /\ (config.inConfirmationsRequired > 1 /\ priorAt(i) = getDefaultTargetState) =>
              newAt(i).status = "OUT"

\* A flip that needed three IN probes in a row.
C1_Witness ==
    \E i \in Processed :
        /\ config.inConfirmationsRequired = 3
        /\ priorAt(i).status = "OUT" /\ priorAt(i).inStreak = 2
        /\ resultAt(i).status = "IN"
        /\ newAt(i).status = "IN"

\* C2: after a flip whose restock alert reached no channel (one at least being
\* configured), every later run that finds the target IN and probes IN
\* attempts the restock alert again, until one attempt reaches a channel.
C2_RetryUntilDelivered ==
    \A i \in Processed :
        (/\ priorAt(i).status = "IN"
         /\ resultAt(i).status = "IN"
         /\ Len(notifiers) > 0
         /\ ~history[nameAt(i)].ok) =>
            Len(restockCallsFor(nameAt(i))) = 1

C4_InToOutImmediate ==
    \A i \in Processed :
        (priorAt(i).status = "IN" /\ resultAt(i).status = "OUT") =>
            /\ newAt(i).status = "OUT"
            /\ newAt(i).inStreak = 0
            /\ newAt(i).inSinceTs = 0
            /\ Len(eventsFor(nameAt(i))) = 1
            /\ eventsFor(nameAt(i))[1].from = "IN"
            /\ eventsFor(nameAt(i))[1].to = "OUT"

\* IN -> OUT from a record with a running error streak and an undelivered alert.
C4_Witness ==
    \E i \in Processed :
        /\ priorAt(i).status = "IN" /\ resultAt(i).status = "OUT"
        /\ priorAt(i).errStreak > 0
        /\ priorAt(i).lastInNotifyOkTs < priorAt(i).lastInNotifyAttemptTs
        /\ newAt(i).status = "OUT"

\* C5: while status is OUT, every OUT outcome and every ERROR outcome resets
\* inStreak to 0 (so a flip needs inConfirmationsRequired IN outcomes in
\* consecutive runs).
C5_StreakResetByOutAndError ==
    \A i \in Processed :
        (priorAt(i).status = "OUT" /\ resultAt(i).status \in {"OUT", "ERROR"}) =>
            newAt(i).inStreak = 0

\* C6 (as stated): a restock alert is sent only in a run whose outcome is IN
\* and whose resulting status is IN; runs with outcome OUT or ERROR, and IN
\* runs that leave status OUT, send no restock alert and emit no change event.
C6_QuietUnlessConfirmedIn ==
    \A i \in Processed :
        /\ Len(restockCallsFor(nameAt(i))) > 0 =>
              (resultAt(i).status = "IN" /\ newAt(i).status = "IN")
        /\ (resultAt(i).status \in {"OUT", "ERROR"}
            \/ (resultAt(i).status = "IN" /\ newAt(i).status = "OUT")) =>
              /\ Len(restockCallsFor(nameAt(i))) = 0
              /\ Len(eventsFor(nameAt(i))) = 0

\* C6 (amended): a restock alert is sent only in a run whose outcome is IN and
\* whose resulting status is IN; runs with outcome OUT or ERROR, and IN runs
\* that leave status OUT, send no restock alert; ERROR runs, IN runs that
\* leave status OUT and OUT runs of a target that was OUT emit no change
\* event, and an OUT run never emits an OUT -> IN event.
C6_QuietUnlessConfirmedInAmended ==
    \A i \in Processed :
        /\ Len(restockCallsFor(nameAt(i))) > 0 =>
              (resultAt(i).status = "IN" /\ newAt(i).status = "IN")
        /\ (resultAt(i).status \in {"OUT", "ERROR"}
            \/ (resultAt(i).status = "IN" /\ newAt(i).status = "OUT")) =>
              /\ Len(restockCallsFor(nameAt(i))) = 0
              /\ \A k \in DOMAIN eventsFor(nameAt(i)) : eventsFor(nameAt(i))[k].to # "IN"
        /\ (resultAt(i).status = "ERROR"
            \/ (resultAt(i).status = "OUT" /\ priorAt(i).status = "OUT")
            \/ (resultAt(i).status = "IN" /\ newAt(i).status = "OUT")) =>
              Len(eventsFor(nameAt(i))) = 0

\* Threshold 3, prior OUT with inStreak 1, probe IN: inStreak 2, still OUT, silence.
C6_Witness ==
    \E i \in Processed :
        /\ config.inConfirmationsRequired = 3
        /\ Len(notifiers) > 0
        /\ priorAt(i).status = "OUT" /\ priorAt(i).inStreak = 1
        /\ resultAt(i).status = "IN"
        /\ newAt(i).status = "OUT" /\ newAt(i).inStreak = 2
        /\ outbox = <<>> /\ changes = <<>>

\* C7: the run that flips a target OUT -> IN performs exactly one restock
\* fan-out, sets inSinceTs and lastInNotifyAttemptTs to now, assigns now to
\* lastInNotifyOkTs exactly when a channel succeeded (the field keeps its
\* value otherwise), and emits exactly one OUT -> IN change event.
C7_FlipEffects ==
    \A i \in Processed :
        (priorAt(i).status = "OUT" /\ newAt(i).status = "IN") =>
            LET calls == callsFor(nameAt(i))
                events == eventsFor(nameAt(i))
            IN  /\ Len(calls) = 1
                /\ calls[1].kind = "restock"
                /\ calls[1].result.attempted = Len(notifiers)
                /\ newAt(i).inSinceTs = now
                /\ newAt(i).lastInNotifyAttemptTs = now
                /\ calls[1].result.sent > 0 => newAt(i).lastInNotifyOkTs = now
                /\ calls[1].result.sent = 0 => newAt(i).lastInNotifyOkTs = priorAt(i).lastInNotifyOkTs
                /\ Len(events) = 1
                /\ events[1].from = "OUT" /\ events[1].to = "IN"

\* Threshold 1, zero-default record, probe IN, two channels of which one fails.
C7_Witness ==
    \E i \in Processed :
        /\ config.inConfirmationsRequired = 1
        /\ priorAt(i) = getDefaultTargetState
        /\ resultAt(i).status = "IN"
        /\ newAt(i).status = "IN"
        /\ Len(outbox) = 1 /\ outbox[1].result.sent = 1 /\ outbox[1].result.failed = 1

\* C8: an error alert fan-out is performed in a run exactly when the outcome
\* is ERROR, the incremented errStreak has reached errorStreakNotifyThreshold
\* and now - lastErrNotifyTs >= errorNotifyCooldownSec; lastErrNotifyTs becomes
\* now when a channel accepted the alert and is unchanged otherwise.
C8_ErrorAlertRule ==
    \A i \in Processed :
        LET calls == errorCallsFor(nameAt(i))
            due == /\ resultAt(i).status = "ERROR"
                   /\ priorAt(i).errStreak + 1 >= config.errorStreakNotifyThreshold
                   /\ now - priorAt(i).lastErrNotifyTs >= config.errorNotifyCooldownSec
        IN  /\ Len(calls) = (IF due THEN 1 ELSE 0)
            /\ (due /\ calls[1].result.sent > 0) => newAt(i).lastErrNotifyTs = now
            /\ ~(due /\ calls[1].result.sent > 0) => newAt(i).lastErrNotifyTs = priorAt(i).lastErrNotifyTs

\* A further ERROR after a delivered alert, cooldown not elapsed: the streak
\* passes the threshold and nothing is sent.
C8_Witness ==
    \E i \in Processed :
        /\ resultAt(i).status = "ERROR"
        /\ Len(notifiers) > 0
        /\ priorAt(i).errStreak >= config.errorStreakNotifyThreshold
        /\ priorAt(i).lastErrNotifyTs > 0
        /\ now - priorAt(i).lastErrNotifyTs < config.errorNotifyCooldownSec
        /\ newAt(i).errStreak = priorAt(i).errStreak + 1
        /\ outbox = <<>>

\* C9: every OUT or IN outcome sets errStreak to 0 and every ERROR outcome
\* adds exactly 1 to it, alert delivered or not; errStreak is the number of
\* consecutive ERROR outcomes up to the latest run.
C9_ErrStreakCounts ==
    /\ \A i \in Processed :
          /\ resultAt(i).status \in {"OUT", "IN"} => newAt(i).errStreak = 0
          /\ resultAt(i).status = "ERROR" => newAt(i).errStreak = priorAt(i).errStreak + 1
          /\ newAt(i).errStreak = history[nameAt(i)].errors
    /\ pc = "idle" => \A n \in Names : withDefaults(loadState(kv), n).errStreak = history[n].errors

\* An ERROR run that follows the run in which the error alert was delivered.
C9_Witness ==
    \E i \in Processed :
        /\ resultAt(i).status = "ERROR"
        /\ priorAt(i).lastErrNotifyTs > 0
        /\ priorAt(i).errStreak >= config.errorStreakNotifyThreshold
        /\ newAt(i).errStreak = priorAt(i).errStreak + 1

\* C10: an ERROR outcome leaves status and inSinceTs unchanged, emits no
\* change event and sends no restock alert.
C10_ErrorKeepsStatus ==
    \A i \in Processed :
        resultAt(i).status = "ERROR" =>
            /\ newAt(i).status = priorAt(i).status
            /\ newAt(i).inSinceTs = priorAt(i).inSinceTs
            /\ Len(eventsFor(nameAt(i))) = 0
            /\ Len(restockCallsFor(nameAt(i))) = 0

\* A target that is IN stays IN through a second consecutive ERROR run.
C10_Witness ==
    \E i \in Processed :
        /\ resultAt(i).status = "ERROR"
        /\ priorAt(i).status = "IN" /\ priorAt(i).errStreak >= 1
        /\ newAt(i).status = "IN" /\ newAt(i).inSinceTs = priorAt(i).inSinceTs
        /\ newAt(i).inSinceTs > 0

(***************************************************************************)
(* A deployment in operation: the target list is edited between runs, the  *)
(* KV store can fail a get or a put, and GET /status is served.  Names in  *)
(* a target list are distinct (the name is the key of the state map).      *)
(***************************************************************************)
TargetLists == {<<1>>, <<2>>, <<1, 2>>, <<2, 1>>}

namesOf(list) == {TARGETS[list[i]].name : i \in DOMAIN list}

\* The fetch results of a healthy origin: every read returns the order page,
\* with or without the out-of-stock text.
HealthyFetchResults == {r \in FetchResults : r.html \in {PageOut, PageCart}}

HealthyProbeResults ==
    [i \in DOMAIN TARGETS |->
        {probeTarget(TARGETS[i], reads) :
            reads \in [1..Len(TARGETS[i].urls) -> [1..2 -> HealthyFetchResults]]}]

\* getStatus: return await loadState(env)
getStatus(stored) == loadState(stored)

\* TARGETS_JSON is changed between two runs.
SetTargets ==
    /\ pc = "idle"
    /\ response.sent
    /\ targets' \in TargetLists \ {targets}
    /\ UNCHANGED <<kv, clock, config, notifiers, pc, state, now, idx, changes, results, outbox, history>>
    /\ UNCHANGED <<ret, aside>>

\* runCheck when STOCK_STATE.get fails: loadState throws before the loop.
loadThrows ==
    /\ pc = "idle"
    /\ ret' = Threw
    /\ UNCHANGED <<kv, clock, config, notifiers, targets, pc, state, now, idx, changes, results, outbox, history>>

LoadFails == response.sent /\ loadThrows /\ UNCHANGED aside

\* runCheck when STOCK_STATE.put fails: saveState throws after the loop.
SaveFails ==
    /\ pc = "loop"
    /\ loopDone(idx, targets)
    /\ ret' = Threw
    /\ pc' = "idle"
    /\ state' = <<>>
    /\ idx' = 1
    /\ changes' = <<>>
    /\ results' = <<>>
    /\ outbox' = <<>>
    /\ UNCHANGED <<kv, clock, config, notifiers, targets, now, history>>
    /\ UNCHANGED aside

\* GET /status, served between two runs: the body is what getStatus returns.
GetStatus ==
    /\ pc = "idle"
    /\ response.sent
    /\ response' = [sent |-> FALSE, body |-> getStatus(kv)]
    /\ UNCHANGED <<kv, clock, config, notifiers, targets, pc, state, now, idx, changes, results, outbox, history>>
    /\ UNCHANGED <<ret, probe, fanout, runs, env, request>>

\* The response leaves the worker.
SendStatus ==
    /\ ~response.sent
    /\ response' = NoResponse
    /\ UNCHANGED <<kv, clock, config, notifiers, targets, pc, state, now, idx, changes, results, outbox, history>>
    /\ UNCHANGED <<ret, probe, fanout, runs, env, request>>

\* A fresh deployment watching both built-in targets, one channel, and the
\* smallest confirmation count.
InitTargets ==
    /\ kv = AbsentBlob
    /\ clock = 1
    /\ config \in {c \in CheckConfigs : c.inConfirmationsRequired = 1 /\ c.errorNotifyCooldownSec = 0}
    /\ notifiers = buildNotifiers(1)
    /\ targets = <<1, 2>>
    /\ pc = "idle"
    /\ state = <<>>
    /\ now = 0
    /\ idx = 1
    /\ changes = <<>>
    /\ results = <<>>
    /\ outbox = <<>>
    /\ history = [n \in Names |-> NoHistory]
    /\ ret = NoRet
    /\ env = DefaultEnv
    /\ request = NoRequest
    /\ response = NoResponse
    /\ probe = ProbeOff
    /\ fanout = FanoutOff
    /\ runs = NoRuns

NextTargets ==
    \/ (response.sent /\ RunCheckLoad)
    \/ RunCheckTargetWith(HealthyProbeResults)
    \/ RunCheckSave
    \/ SetTargets
    \/ LoadFails
    \/ SaveFails
    \/ GetStatus
    \/ SendStatus

SpecTargets == InitTargets /\ [][NextTargets]_vars

\* C11: the snapshot written by a run has an entry for exactly the names of
\* the target list of that run; the entry of a name removed from the list
\* since the previous run is not in it.
C11_SnapshotHasExactlyTargets ==
    [][(pc = "loop" /\ pc' = "idle" /\ ret'.kind = "returned") =>
            DOMAIN loadState(kv') = namesOf(targets)]_vars

\* C12: the map returned by getStatus has exactly the configured target names
\* as keys, a configured name without a stored entry carrying the default
\* record and a stored entry keeping its record.
C12_StatusHasConfiguredNames ==
    ~response.sent =>
        /\ DOMAIN response.body = namesOf(targets)
        /\ \A n \in namesOf(targets) : response.body[n] = withDefaults(loadState(kv), n)

\* C18: the snapshot changes only in the step that ends a run which returns,
\* after the loop has processed every target of the list, and then to the
\* whole in-memory map; a run that throws (get or put failed) leaves it as
\* it was.
C18_OneWriteAfterTheLoop ==
    [][kv' # kv =>
            /\ pc = "loop" /\ pc' = "idle" /\ ret'.kind = "returned"
            /\ idx = Len(targets) + 1
            /\ Len(results) = Len(targets)
            /\ kv' = saveState(state)]_vars

\* A run delivered a restock alert for the first target and then failed to
\* save: nothing has ever been stored.
C18_Witness ==
    /\ pc = "idle"
    /\ ret.kind = "threw"
    /\ kv = AbsentBlob
    /\ history[TARGETS[1].name].ok

\* The position of a name in the target list.
posOf(name) == CHOOSE i \in DOMAIN targets : nameAt(i) = name

\* C19: in the loop, the targets before idx have been processed, in list
\* order, each once: its record is the loaded record transformed once by its
\* own probe result; the targets from idx on are untouched; the fan-outs
\* and change events made so far are in list order.
C19_OneAfterAnotherInListOrder ==
    pc = "loop" =>
        /\ Len(results) = idx - 1
        /\ \A i \in 1..(idx - 1) :
            /\ \E u \in DOMAIN TARGETS[targets[i]].urls : resultAt(i).usedUrl = TARGETS[targets[i]].urls[u]
            /\ nameAt(i) \in DOMAIN state
            /\ \E settled \in SettledOf(notifiers) :
                  newAt(i) = buildTargetState(
                      handleResult(priorAt(i), resultAt(i), nameAt(i), now, config, notifiers, settled).ctx,
                      resultAt(i), now)
        /\ \A j \in idx..Len(targets) :
            /\ nameAt(j) \in DOMAIN state <=> nameAt(j) \in DOMAIN loadState(kv)
            /\ nameAt(j) \in DOMAIN state => state[nameAt(j)] = loadState(kv)[nameAt(j)]
        /\ \A a, b \in DOMAIN outbox :
            /\ outbox[a].name \in {nameAt(i) : i \in 1..(idx - 1)}
            /\ a < b => posOf(outbox[a].name) <= posOf(outbox[b].name)
        /\ \A a, b \in DOMAIN changes :
            /\ changes[a].name \in {nameAt(i) : i \in 1..(idx - 1)}
            /\ a < b => posOf(changes[a].name) <= posOf(changes[b].name)

\* Both targets of a two-target list processed, each with a fan-out.
C19_Witness ==
    /\ pc = "loop"
    /\ Len(targets) = 2
    /\ idx = 3
    /\ \A n \in namesOf(targets) : Len(callsFor(n)) > 0

(***************************************************************************)
(* probeTarget, read by read.  probe.reads[i][j] is what the network       *)
(* answers to the j-th fetch of the i-th URL; probe.log lists the fetches  *)
(* made, in order.                                                         *)
(***************************************************************************)
Continue(reason) == [kind |-> "continue", reason |-> reason]
Return(status, url, reason) ==
    [kind |-> "return", result |-> [ok |-> TRUE, status |-> status, usedUrl |-> url, reason |-> reason]]
Confirm == [kind |-> "confirm"]

firstReadStopping(target, url, r) ==
    IF noBody(r.html)
    THEN [kind |-> "return",
          result |-> [ok |-> FALSE, status |-> "ERROR", usedUrl |-> url, reason |-> <<"http_", statusText(r.status)>>]]
    ELSE IF ~sanityOk(r.html, target.mustContainAny) THEN Continue(<<"sanity_failed@", url>>)
    ELSE IF matchAnyRegex(r.html, target.outOfStockRegex) THEN Return("OUT", url, <<"out_of_stock_keyword">>)
    ELSE Confirm

\* The statements after the first fetchUrl of a URL.
firstRead(target, url, r) ==
    IF noBody(r.html) THEN Continue(<<"http_", statusText(r.status)>>)
    ELSE IF ~sanityOk(r.html, target.mustContainAny) THEN Continue(<<"sanity_failed@", url>>)
    ELSE IF matchAnyRegex(r.html, target.outOfStockRegex) THEN Return("OUT", url, <<"out_of_stock_keyword">>)
    ELSE Confirm

confirmReadTrusting(target, url, r) ==
    IF noBody(r.html) THEN Continue(<<"confirm_http_", statusText(r.status)>>)
    ELSE IF ~sanityOk(r.html, target.mustContainAny) THEN Continue(<<"confirm_sanity_failed@", url>>)
    ELSE Return("IN", url, <<"confirmed_in_stock">>)

confirmReadFailing(target, url, r) ==
    IF noBody(r.html) \/ ~sanityOk(r.html, target.mustContainAny)
    THEN [kind |-> "return",
          result |-> [ok |-> FALSE, status |-> "ERROR", usedUrl |-> url, reason |-> <<"confirm_failed">>]]
    ELSE IF matchAnyRegex(r.html, target.outOfStockRegex) THEN Return("OUT", url, <<"flap_back_to_out">>)
    ELSE Return("IN", url, <<"confirmed_in_stock">>)

\* The statements after the second fetchUrl of a URL.
confirmRead(target, url, r) ==
    IF noBody(r.html) THEN Continue(<<"confirm_http_", statusText(r.status)>>)
    ELSE IF ~sanityOk(r.html, target.mustContainAny) THEN Continue(<<"confirm_sanity_failed@", url>>)
    ELSE IF matchAnyRegex(r.html, target.outOfStockRegex) THEN Return("OUT", url, <<"flap_back_to_out">>)
    ELSE Return("IN", url, <<"confirmed_in_stock">>)

\* Faulty variant of probeAfter: a URL that gave no verdict is tried again.
probeAfterRetrying(pr, url, read, v) ==
    [pr EXCEPT !.log = Append(@, [url |-> url, read |-> read]),
               !.lastUsedUrl = url,
               !.stage = IF v.kind = "confirm" THEN "confirm" ELSE IF v.kind = "return" THEN "done" ELSE "first",
               !.lastReason = IF v.kind = "continue" THEN v.reason ELSE @,
               !.result = IF v.kind = "return" THEN v.result ELSE @]

\* probe after a read of its current URL with verdict v.
probeAfter(pr, url, read, v) ==
    [pr EXCEPT !.log = Append(@, [url |-> url, read |-> read]),
               !.lastUsedUrl = url,
               !.stage = IF v.kind = "confirm" THEN "confirm" ELSE IF v.kind = "return" THEN "done" ELSE "first",
               !.i = IF v.kind = "continue" THEN @ + 1 ELSE @,
               !.lastReason = IF v.kind = "continue" THEN v.reason ELSE @,
               !.result = IF v.kind = "return" THEN v.result ELSE @]

\* No result yet.
NoResult == [ok |-> FALSE, status |-> "NONE", usedUrl |-> Null, reason |-> <<>>]

\* Every assignment of fetch results to the reads of a target's URLs.
AllReadsOf(target) == [1..Len(target.urls) -> [1..2 -> FetchResults]]

\* The first fetch of the current URL.
ProbeFirstRead ==
    /\ probe.stage = "first"
    /\ probe.i <= Len(TARGETS[probe.target].urls)
    /\ LET target == TARGETS[probe.target]
           url == target.urls[probe.i]
       IN  probe' = probeAfter(probe, url, 1, firstRead(target, url, probe.reads[probe.i][1]))
    /\ UNCHANGED <<kv, clock, config, notifiers, targets, pc, state, now, idx, changes, results, outbox, history>>
    /\ UNCHANGED <<ret, response, fanout, runs, env, request>>

\* The confirmation fetch of the current URL, after the delay.
ProbeConfirmRead ==
    /\ probe.stage = "confirm"
    /\ LET target == TARGETS[probe.target]
           url == target.urls[probe.i]
       IN  probe' = probeAfter(probe, url, 2, confirmRead(target, url, probe.reads[probe.i][2]))
    /\ UNCHANGED <<kv, clock, config, notifiers, targets, pc, state, now, idx, changes, results, outbox, history>>
    /\ UNCHANGED <<ret, response, fanout, runs, env, request>>

\* The return after the loop over the URLs.
ProbeFail ==
    /\ probe.stage = "first"
    /\ probe.i > Len(TARGETS[probe.target].urls)
    /\ probe' = [probe EXCEPT !.stage = "done",
                              !.result = [ok |-> FALSE, status |-> "ERROR",
                                          usedUrl |-> probe.lastUsedUrl, reason |-> probe.lastReason]]
    /\ UNCHANGED <<kv, clock, config, notifiers, targets, pc, state, now, idx, changes, results, outbox, history>>
    /\ UNCHANGED <<ret, response, fanout, runs, env, request>>

\* One call of probeTarget, for either built-in target and any answers of
\* the network.
InitProbe ==
    /\ kv = AbsentBlob
    /\ clock = 1
    /\ config = [inConfirmationsRequired |-> 1, errorStreakNotifyThreshold |-> 2, errorNotifyCooldownSec |-> 0]
    /\ notifiers = <<>>
    /\ targets = <<1>>
    /\ pc = "idle"
    /\ state = <<>>
    /\ now = 0
    /\ idx = 1
    /\ changes = <<>>
    /\ results = <<>>
    /\ outbox = <<>>
    /\ history = [n \in Names |-> NoHistory]
    /\ ret = NoRet
    /\ env = DefaultEnv
    /\ request = NoRequest
    /\ response = NoResponse
    /\ fanout = FanoutOff
    /\ runs = NoRuns
    /\ \E t \in DOMAIN TARGETS : \E reads \in AllReadsOf(TARGETS[t]) :
          probe = [stage |-> "first", target |-> t, reads |-> reads, i |-> 1,
                   lastReason |-> <<"fetch_failed">>, lastUsedUrl |-> Null,
                   log |-> <<>>, result |-> NoResult]

NextProbe == ProbeFirstRead \/ ProbeConfirmRead \/ ProbeFail

SpecProbe == InitProbe /\ [][NextProbe]_vars

\* What the two reads rs of a URL amount to, from the page tests alone.
readOk(target, r) == ~noBody(r.html) /\ sanityOk(r.html, target.mustContainAny)
readOut(target, r) == matchAnyRegex(r.html, target.outOfStockRegex)
urlOutcome(target, rs) ==
    IF ~readOk(target, rs[1]) THEN "FAIL"
    ELSE IF readOut(target, rs[1]) THEN "OUT"
    ELSE IF ~readOk(target, rs[2]) THEN "FAIL"
    ELSE IF readOut(target, rs[2]) THEN "OUT"
    ELSE "IN"

\* The reason recorded for a URL whose reads rs failed.
failReason(target, url, rs) ==
    IF noBody(rs[1].html) THEN <<"http_", statusText(rs[1].status)>>
    ELSE IF ~readOk(target, rs[1]) THEN <<"sanity_failed@", url>>
    ELSE IF noBody(rs[2].html) THEN <<"confirm_http_", statusText(rs[2].status)>>
    ELSE <<"confirm_sanity_failed@", url>>

probedTarget == TARGETS[probe.target]
Conclusive == {i \in DOMAIN probedTarget.urls : urlOutcome(probedTarget, probe.reads[i]) # "FAIL"}
FirstConclusive == CHOOSE i \in Conclusive : \A j \in Conclusive : i <= j
LastTried == IF Conclusive = {} THEN Len(probedTarget.urls) ELSE FirstConclusive

C13_WitnessError ==
    /\ probe.stage = "done"
    /\ Len(probedTarget.urls) = 2
    /\ probe.result.status = "ERROR"
    /\ probe.result.reason = <<"confirm_sanity_failed@", probedTarget.urls[2]>>

\* The last fetch made.
lastFetch == probe.log[Len(probe.log)]

\* C14: IN is returned only after two successive reads of the returned URL
\* that both had a body, passed the sanity check and matched no
\* out-of-stock pattern; a first read that matches returns OUT with no
\* second read of the URL; a second read that matches returns OUT
\* (flap_back_to_out).
C14_InNeedsTwoCleanReads ==
    probe.stage = "done" =>
        LET n == Len(probe.log)
            used == CHOOSE i \in DOMAIN probedTarget.urls : probedTarget.urls[i] = probe.result.usedUrl
        IN  /\ probe.result.status = "IN" =>
                /\ n >= 2
                /\ probe.log[n - 1] = [url |-> probe.result.usedUrl, read |-> 1]
                /\ probe.log[n] = [url |-> probe.result.usedUrl, read |-> 2]
                /\ \A j \in 1..2 : /\ readOk(probedTarget, probe.reads[used][j])
                                    /\ ~readOut(probedTarget, probe.reads[used][j])
            /\ (lastFetch.read = 1 /\ probe.result.status # "ERROR") =>
                /\ readOut(probedTarget, probe.reads[used][1])
                /\ probe.result.status = "OUT"
                /\ probe.result.reason = <<"out_of_stock_keyword">>
            /\ (probe.result.status # "ERROR" /\ readOk(probedTarget, probe.reads[used][1])
                    /\ readOut(probedTarget, probe.reads[used][1])) =>
                /\ lastFetch = [url |-> probe.result.usedUrl, read |-> 1]
                /\ probe.result.status = "OUT"
            /\ (lastFetch.read = 2 /\ probe.result.status # "ERROR"
                    /\ readOut(probedTarget, probe.reads[used][2])) =>
                /\ probe.result.status = "OUT"
                /\ probe.result.reason = <<"flap_back_to_out">>

\* A purchasable first read and an out-of-stock second read of the same URL.
C14_Witness ==
    /\ probe.stage = "done"
    /\ probe.result.reason = <<"flap_back_to_out">>
    /\ lastFetch.read = 2

\* The URLs whose first read looked purchasable and whose confirmation read
\* failed.
Unconfirmed ==
    {i \in DOMAIN probedTarget.urls :
        /\ readOk(probedTarget, probe.reads[i][1])
        /\ ~readOut(probedTarget, probe.reads[i][1])
        /\ ~readOk(probedTarget, probe.reads[i][2])}

ChannelLists ==
    {SelectSeq(AllNotifiers, LAMBDA c : c \in S) : S \in SUBSET {AllNotifiers[i] : i \in DOMAIN AllNotifiers}}

\* Faulty variant of allSettled: Promise.all, which rejects with the first
\* rejection.
promiseAll(settled) ==
    [rejected |-> \E i \in DOMAIN settled : settled[i] = "rejected", value |-> settled]

\* Promise.allSettled: fulfilled with the outcome of every promise once all
\* have settled; it never rejects.
allSettled(settled) == [rejected |-> FALSE, value |-> settled]

\* notifyAll up to the await: nothing to do, or send on every channel.
NotifyStart ==
    /\ fanout.stage = "called"
    /\ IF Len(fanout.notifiers) = 0
       THEN fanout' = [fanout EXCEPT !.stage = "done", !.result = notifyAll(fanout.notifiers, <<>>)]
       ELSE fanout' = [fanout EXCEPT !.stage = "sending",
                                     !.sends = [i \in DOMAIN fanout.notifiers |-> @[i] + 1]]
    /\ UNCHANGED <<kv, clock, config, notifiers, targets, pc, state, now, idx, changes, results, outbox, history>>
    /\ UNCHANGED <<ret, response, probe, runs, env, request>>

\* One send completes or throws, whatever the state of the others.
SendSettles ==
    /\ fanout.stage = "sending"
    /\ \E i \in DOMAIN fanout.notifiers, outcome \in {"fulfilled", "rejected"} :
          /\ fanout.settled[i] = "pending"
          /\ fanout' = [fanout EXCEPT !.settled[i] = outcome, !.order = Append(@, i)]
    /\ UNCHANGED <<kv, clock, config, notifiers, targets, pc, state, now, idx, changes, results, outbox, history>>
    /\ UNCHANGED <<ret, response, probe, runs, env, request>>

\* The await resumes once every send has settled; the outcomes are counted.
NotifyReturn ==
    /\ fanout.stage = "sending"
    /\ \A i \in DOMAIN fanout.notifiers : fanout.settled[i] # "pending"
    /\ LET p == allSettled(fanout.settled)
       IN  IF p.rejected
           THEN fanout' = [fanout EXCEPT !.stage = "threw"]
           ELSE fanout' = [fanout EXCEPT !.stage = "done", !.result = notifyAll(fanout.notifiers, p.value)]
    /\ UNCHANGED <<kv, clock, config, notifiers, targets, pc, state, now, idx, changes, results, outbox, history>>
    /\ UNCHANGED <<ret, response, probe, runs, env, request>>

\* One call of notifyAll, for any channel list.
InitNotify ==
    /\ kv = AbsentBlob
    /\ clock = 1
    /\ config = [inConfirmationsRequired |-> 1, errorStreakNotifyThreshold |-> 2, errorNotifyCooldownSec |-> 0]
    /\ notifiers = <<>>
    /\ targets = <<1>>
    /\ pc = "idle"
    /\ state = <<>>
    /\ now = 0
    /\ idx = 1
    /\ changes = <<>>
    /\ results = <<>>
    /\ outbox = <<>>
    /\ history = [n \in Names |-> NoHistory]
    /\ ret = NoRet
    /\ env = DefaultEnv
    /\ request = NoRequest
    /\ response = NoResponse
    /\ probe = ProbeOff
    /\ runs = NoRuns
    /\ \E list \in ChannelLists :
          fanout = [stage |-> "called", notifiers |-> list,
                    sends |-> [i \in DOMAIN list |-> 0],
                    settled |-> [i \in DOMAIN list |-> "pending"],
                    order |-> <<>>,
                    result |-> [attempted |-> 0, sent |-> 0, failed |-> 0, errors |-> <<>>]]

NextNotify == NotifyStart \/ SendSettles \/ NotifyReturn

SpecNotify == InitNotify /\ [][NextNotify]_vars

\* The channels of the fan-out whose send had the given outcome.
channelsSettled(outcome) == {i \in DOMAIN fanout.notifiers : fanout.settled[i] = outcome}

\* C16: once notifyAll has started its sends, send has been invoked once on
\* every channel, and stays so whatever the outcomes of the other channels
\* and the order in which they settle; each channel settles at most once;
\* notifyAll never throws, and returns only after every send has settled.
C16_EveryChannelTriedOnce ==
    /\ fanout.stage # "threw"
    /\ fanout.stage = "called" => \A i \in DOMAIN fanout.notifiers : fanout.sends[i] = 0
    /\ (fanout.stage \in {"sending", "done"} /\ Len(fanout.notifiers) > 0) =>
            \A i \in DOMAIN fanout.notifiers : fanout.sends[i] = 1
    /\ \A a, b \in DOMAIN fanout.order : a # b => fanout.order[a] # fanout.order[b]
    /\ {fanout.order[a] : a \in DOMAIN fanout.order} = DOMAIN fanout.notifiers \ channelsSettled("pending")
    /\ fanout.stage = "done" => channelsSettled("pending") = {}

\* The first channel failed first; the last one, tried all the same,
\* succeeded afterwards, and notifyAll returned.
C16_Witness ==
    /\ fanout.stage = "done"
    /\ Len(fanout.notifiers) = 3
    /\ fanout.order[1] = 1 /\ fanout.settled[1] = "rejected"
    /\ fanout.order[3] = 3 /\ fanout.settled[3] = "fulfilled"
    /\ fanout.result.sent > 0

\* C17: the result of notifyAll counts the channels: attempted is their
\* number, sent the number whose send succeeded, failed the number whose
\* send failed and the length of errors, sent + failed = attempted; with no
\* channel the result is all zeros and nothing was sent.
C17_ResultCountsChannels ==
    fanout.stage = "done" =>
        /\ fanout.result.attempted = Len(fanout.notifiers)
        /\ fanout.result.sent = Cardinality(channelsSettled("fulfilled"))
        /\ fanout.result.failed = Cardinality(channelsSettled("rejected"))
        /\ fanout.result.failed = Len(fanout.result.errors)
        /\ fanout.result.sent + fanout.result.failed = fanout.result.attempted
        /\ \A e \in DOMAIN fanout.result.errors :
              \E i \in channelsSettled("rejected") : fanout.result.errors[e] = fanout.notifiers[i]
        /\ Len(fanout.notifiers) = 0 =>
              /\ fanout.result = [attempted |-> 0, sent |-> 0, failed |-> 0, errors |-> <<>>]
              /\ fanout.order = <<>>

\* Three channels, one success and two failures.
C17_Witness ==
    /\ fanout.stage = "done"
    /\ fanout.result = [attempted |-> 3, sent |-> 1, failed |-> 2,
                         errors |-> <<"TelegramNotifier", "DingTalkNotifier">>]

\* No channel configured.
C17_WitnessEmpty ==
    /\ fanout.stage = "done"
    /\ Len(fanout.notifiers) = 0

(***************************************************************************)
(* Overlapping runs: two runCheck instances (a cron run still in flight    *)
(* when the next one, or a manual /check, starts) share the KV store and   *)
(* nothing else.  runs[r] holds the locals of instance r; stale marks an   *)
(* instance in whose loop another instance has saved.                      *)
(***************************************************************************)
RunIds == {1, 2}

\* Faulty variant of kvPut: a put that keeps a value stored meanwhile.
kvPutKeepingNewer(stored, loaded, value) == IF stored = loaded THEN value ELSE stored

\* STOCK_STATE.put('state', value): the value replaces whatever is stored.
kvPut(stored, loaded, value) == value

\* What the loop makes of the map st for the target at position i.
loopBody(st, i, result, ts, settled) ==
    LET name == targetAt(targets, i).name
    IN  assign(st, name,
               buildTargetState(
                   handleResult(withDefaults(st, name), result, name, ts, config, notifiers, settled).ctx,
                   result, ts))

\* runCheck of instance r up to its loop, in a second in which r has not
\* run yet.
OverlapLoad(r) ==
    /\ runs[r].pc \in {"idle", "saved"}
    /\ runs[r].now < clock
    /\ runs' = [runs EXCEPT ![r] = [pc |-> "loop", loaded |-> kv, state |-> loadState(kv),
                                     now |-> clock, idx |-> 1, stale |-> FALSE]]
    /\ UNCHANGED <<kv, clock, config, notifiers, targets, pc, state, now, idx, changes, results, outbox, history>>
    /\ UNCHANGED <<ret, response, probe, fanout, env, request>>

\* One iteration of the loop of instance r.
OverlapTarget(r) ==
    /\ runs[r].pc = "loop"
    /\ ~loopDone(runs[r].idx, targets)
    /\ \E result \in HealthyProbeResults[targets[runs[r].idx]], settled \in SettledOf(notifiers) :
          runs' = [runs EXCEPT ![r].state = loopBody(@, runs[r].idx, result, runs[r].now, settled),
                               ![r].idx = @ + 1]
    /\ UNCHANGED <<kv, clock, config, notifiers, targets, pc, state, now, idx, changes, results, outbox, history>>
    /\ UNCHANGED <<ret, response, probe, fanout, env, request>>

\* The save of instance r.
OverlapSave(r) ==
    /\ runs[r].pc = "loop"
    /\ loopDone(runs[r].idx, targets)
    /\ kv' = kvPut(kv, runs[r].loaded, saveState(runs[r].state))
    /\ runs' = [q \in RunIds |->
                    IF q = r THEN [runs[q] EXCEPT !.pc = "saved"]
                    ELSE IF runs[q].pc = "loop" THEN [runs[q] EXCEPT !.stale = TRUE]
                    ELSE runs[q]]
    /\ UNCHANGED <<clock, config, notifiers, targets, pc, state, now, idx, changes, results, outbox, history>>
    /\ UNCHANGED <<ret, response, probe, fanout, env, request>>

\* A fresh deployment watching the single-URL target, one channel, three
\* confirmations required.
InitOverlap ==
    /\ kv = AbsentBlob
    /\ clock = 1
    /\ config \in {c \in CheckConfigs : c.inConfirmationsRequired = 3 /\ c.errorNotifyCooldownSec = 0}
    /\ notifiers = buildNotifiers(1)
    /\ targets = <<2>>
    /\ pc = "idle"
    /\ state = <<>>
    /\ now = 0
    /\ idx = 1
    /\ changes = <<>>
    /\ results = <<>>
    /\ outbox = <<>>
    /\ history = [n \in Names |-> NoHistory]
    /\ ret = NoRet
    /\ env = DefaultEnv
    /\ request = NoRequest
    /\ response = NoResponse
    /\ probe = ProbeOff
    /\ fanout = FanoutOff
    /\ runs = [r \in RunIds |-> [pc |-> "idle", loaded |-> AbsentBlob, state |-> <<>>,
                                  now |-> 0, idx |-> 1, stale |-> FALSE]]

NextOverlap ==
    \/ Tick
    \/ \E r \in RunIds : OverlapLoad(r)
    \/ \E r \in RunIds : OverlapTarget(r)
    \/ \E r \in RunIds : OverlapSave(r)

SpecOverlap == InitOverlap /\ [][NextOverlap]_vars

\* The maps the loop can compute from the snapshot loaded at time ts.
computedFrom(loaded, ts) ==
    {loopBody(loadState(loaded), 1, result, ts, settled) :
        result \in HealthyProbeResults[targets[1]], settled \in SettledOf(notifiers)}

\* C20: when an instance saves after another instance has saved during its
\* loop (both had loaded before either saved), the stored snapshot becomes
\* the map this instance computed from the snapshot it had loaded; nothing
\* of what the other instance stored meanwhile is kept.
C20_LastWriteWins ==
    [][\A r \in RunIds :
          (runs[r].pc = "loop" /\ runs'[r].pc = "saved" /\ runs[r].stale) =>
              /\ kv' = saveState(runs[r].state)
              /\ runs[r].state \in computedFrom(runs[r].loaded, runs[r].now)]_vars

\* Both instances loaded the empty store and probed IN; the second save
\* stored a streak of 1, as did the first, where two runs in sequence
\* store 2.
C20_Witness ==
    /\ \A r \in RunIds : runs[r].pc = "saved" /\ runs[r].loaded = AbsentBlob
    /\ \E r \in RunIds : runs[r].stale /\ kv = saveState(runs[r].state)
    /\ \A r \in RunIds : runs[r].state[TARGETS[2].name].lastReason = <<"confirmed_in_stock">>
    /\ loadState(kv)[TARGETS[2].name].inStreak = 1

(***************************************************************************)
(* The worker's entry points: index.ts.  A text is a sequence of           *)
(* characters; a header that may be absent is a record with a null flag.   *)
(***************************************************************************)
NoHeader == [null |-> TRUE, value |-> <<>>]
Header(v) == [null |-> FALSE, value |-> v]

isSpace(c) == c = " "

lowerChar(c) ==
    IF c = "B" THEN "b" ELSE IF c = "E" THEN "e" ELSE IF c = "A" THEN "a" ELSE IF c = "R" THEN "r" ELSE c

\* String.prototype.trim
RECURSIVE trimStart(_)
trimStart(v) == IF v # <<>> /\ isSpace(Head(v)) THEN trimStart(Tail(v)) ELSE v

RECURSIVE trimEnd(_)
trimEnd(v) == IF v # <<>> /\ isSpace(v[Len(v)]) THEN trimEnd(SubSeq(v, 1, Len(v) - 1)) ELSE v

trim(v) == trimEnd(trimStart(v))

\* The group of /^Bearer\s+(.+)$/i on a text that matches: \s+ is greedy but
\* leaves the group at least one character.
RECURSIVE bearerGroup(_)
bearerGroup(rest) == IF Len(rest) > 1 /\ isSpace(Head(rest)) THEN bearerGroup(Tail(rest)) ELSE rest

bearerMatches(v) ==
    /\ Len(v) >= 8
    /\ [i \in 1..6 |-> lowerChar(v[i])] = <<"b", "e", "a", "r", "e", "r">>
    /\ isSpace(v[7])

methodAllowed(method) == method = "GET"

readBearerToken(req) ==
    IF req.authorization.null \/ req.authorization.value = <<>> THEN NoHeader
    ELSE IF bearerMatches(req.authorization.value)
         THEN Header(trim(bearerGroup(SubSeq(req.authorization.value, 8, Len(req.authorization.value)))))
         ELSE NoHeader

\* Faulty variant of isAuthorized: the presence of a token is enough.
isAuthorizedByAnyToken(req, e) ==
    \/ e.ADMIN_TOKEN = <<>>
    \/ ~readBearerToken(req).null
    \/ ~req.xAdminToken.null

isAuthorized(req, e) ==
    IF e.ADMIN_TOKEN = <<>> THEN TRUE
    ELSE LET bearer == readBearerToken(req)
             token == IF bearer.null THEN req.xAdminToken ELSE bearer
         IN  token = Header(e.ADMIN_TOKEN)

\* The responses of the fetch handler.
Response(status, body) == [sent |-> TRUE, status |-> status, body |-> body]
unauthorized == Response(401, [text |-> "Unauthorized"])
methodNotAllowed == Response(405, [text |-> "Method Not Allowed"])
usage == Response(200, [text |-> "Restock Monitor"])
failure == Response(500, [text |-> "Error"])

\* The handler is waiting for runCheck.
Awaiting == [sent |-> FALSE, status |-> 0, body |-> <<>>]

\* Faulty variant of caught: the rejection of runCheck reaches the runtime.
caughtNever(r) == [sent |-> TRUE, status |-> 0, body |-> [promise |-> IF r.kind = "threw" THEN "rejected" ELSE "fulfilled"]]

\* scheduled: the promise handed to ctx.waitUntil is runCheck(env).catch(...),
\* which is fulfilled whether runCheck returns or throws.
caught(r) == [sent |-> TRUE, status |-> 0, body |-> [promise |-> "fulfilled"]]

\* fetch, / and /check: the try block around runCheck.
checked(r) == IF r.kind = "threw" THEN failure ELSE Response(200, [summary |-> r.msg])

AdminToken == <<"k">>

Authorizations ==
    { NoHeader,
      Header(<<"B", "e", "a", "r", "e", "r", " ", "k">>),
      Header(<<"b", "E", "A", "R", "e", "r", " ", " ", "k", " ">>),
      Header(<<"B", "e", "a", "r", "e", "r", " ", "x">>),
      Header(<<"B", "e", "a", "r", "e", "r", "k">>),
      Header(<<"B", "e", "a", "r", "e", "r", " ", " ">>),
      Header(<<"k">>) }

XAdminTokens == {NoHeader, Header(<<"k">>), Header(<<"x">>)}

\* The requests a deployment is explored with: every method, path and
\* combination of the two headers where a token is configured; GET /check and
\* GET /status without headers where every caller is admitted.
Requests(e) ==
    IF e.ADMIN_TOKEN = <<>>
    THEN [trigger : {"fetch"}, method : {"GET"}, pathname : {"/check", "/status"},
          authorization : {NoHeader}, xAdminToken : {NoHeader}]
    ELSE [trigger : {"fetch"}, method : {"GET", "POST"}, pathname : {"/", "/check", "/status", "/other"},
          authorization : Authorizations, xAdminToken : XAdminTokens]

Cron == [trigger |-> "scheduled"]

protected(req) == req.pathname \in {"/", "/check", "/status"}

\* The fetch results of the worker's runs: a failed fetch or a purchasable
\* page; all the reads of one probe see the same.
WorkerFetchResults == {r \in FetchResults : r.status = 0 \/ r.html = PageCart}

WorkerProbeResults ==
    [i \in DOMAIN TARGETS |->
        {probeTarget(TARGETS[i], [u \in 1..Len(TARGETS[i].urls) |-> [k \in 1..2 |-> r]]) :
            r \in WorkerFetchResults}]

run == <<kv, clock, config, notifiers, targets, pc, state, now, idx, changes, results, outbox, history>>

\* fetch(request, env, ctx) up to its response or to the loop of runCheck.
Fetch ==
    /\ pc = "idle"
    /\ request = NoRequest
    /\ \E req \in Requests(env) :
         /\ request' = req
         /\ IF req.pathname = "/status"
            THEN /\ IF ~methodAllowed(req.method) THEN response' = methodNotAllowed /\ ret' = NoRet
                    ELSE IF ~isAuthorized(req, env) THEN response' = unauthorized /\ ret' = NoRet
                    ELSE \/ response' = Response(200, [json |-> getStatus(kv)]) /\ ret' = NoRet
                         \/ response' = failure /\ ret' = Threw
                 /\ UNCHANGED run
            ELSE IF req.pathname \in {"/", "/check"}
            THEN IF ~methodAllowed(req.method) THEN response' = methodNotAllowed /\ ret' = NoRet /\ UNCHANGED run
                 ELSE IF ~isAuthorized(req, env) THEN response' = unauthorized /\ ret' = NoRet /\ UNCHANGED run
                 ELSE response' = Awaiting /\ (loadStep \/ loadThrows)
            ELSE response' = usage /\ ret' = NoRet /\ UNCHANGED run
    /\ UNCHANGED <<probe, fanout, runs, env>>

\* scheduled(controller, env, ctx) up to the loop of runCheck.
Scheduled ==
    /\ pc = "idle"
    /\ request = NoRequest
    /\ request' = Cron
    /\ response' = Awaiting
    /\ (loadStep \/ loadThrows)
    /\ UNCHANGED <<probe, fanout, runs, env>>

\* runCheck has returned or thrown: the handler that awaited it finishes.
Settle ==
    /\ pc = "idle"
    /\ ~response.sent
    /\ ret.kind # "none"
    /\ response' = IF request.trigger = "scheduled" THEN caught(ret) ELSE checked(ret)
    /\ UNCHANGED run
    /\ UNCHANGED <<ret, probe, fanout, runs, env, request>>

\* The invocation is over: the response has left the worker.
Finish ==
    /\ request # NoRequest
    /\ response.sent
    /\ request' = NoRequest
    /\ response' = Response(0, <<>>)
    /\ ret' = NoRet
    /\ UNCHANGED run
    /\ UNCHANGED <<probe, fanout, runs, env>>

\* A deployment with one channel: both built-in targets where every caller
\* is admitted, the second one where an ADMIN_TOKEN is configured.
InitWorker ==
    /\ kv = AbsentBlob
    /\ clock = 1
    /\ config \in {c \in CheckConfigs : c.inConfirmationsRequired = 1 /\ c.errorNotifyCooldownSec = 0}
    /\ notifiers = buildNotifiers(1)
    /\ env \in {DefaultEnv, [ADMIN_TOKEN |-> AdminToken]}
    /\ targets = IF env.ADMIN_TOKEN = <<>> THEN <<1, 2>> ELSE <<2>>
    /\ pc = "idle"
    /\ state = <<>>
    /\ now = 0
    /\ idx = 1
    /\ changes = <<>>
    /\ results = <<>>
    /\ outbox = <<>>
    /\ history = [n \in Names |-> NoHistory]
    /\ ret = NoRet
    /\ request = NoRequest
    /\ response = Response(0, <<>>)
    /\ probe = ProbeOff
    /\ fanout = FanoutOff
    /\ runs = NoRuns

NextWorker ==
    \/ Fetch
    \/ Scheduled
    \/ RunCheckTargetWith(WorkerProbeResults)
    \/ RunCheckSave
    \/ SaveFails
    \/ Settle
    \/ Finish

SpecWorker == InitWorker /\ [][NextWorker]_vars


C21_WitnessAbsorbed == request = Cron /\ response.sent /\ ret.kind = "threw"

C21_WitnessError == request # NoRequest /\ request.trigger = "fetch" /\ response.sent /\ response.status = 500 /\ ret.kind = "threw"

\* C27: with an ADMIN_TOKEN configured, a request to /, /check or /status
\* starts runCheck or getStatus only if it is a GET whose Authorization
\* value is the Bearer scheme followed by exactly the token, or whose
\* X-Admin-Token is exactly the token; every request to these paths that is
\* not such a GET is answered 405 (not a GET) or 401 and leaves the stored
\* state, the run and the notifications as they were.
C27_OnlyTheTokenOpens ==
    [][ (request = NoRequest /\ request' # NoRequest /\ request'.trigger = "fetch"
            /\ env.ADMIN_TOKEN # <<>> /\ protected(request')) =>
          LET auth == request'.authorization.value
              asBearer == /\ ~request'.authorization.null
                          /\ bearerMatches(auth)
                          /\ trim(SubSeq(auth, 7, Len(auth))) = env.ADMIN_TOKEN
              asHeader == request'.xAdminToken = Header(env.ADMIN_TOKEN)
              carries == request'.method = "GET" /\ (asBearer \/ asHeader)
              started == pc' = "loop" \/ ret'.kind = "threw" \/ response'.status \in {200, 500}
          IN  /\ started => carries
              /\ ~carries =>
                    /\ response' = IF request'.method # "GET" THEN methodNotAllowed ELSE unauthorized
                    /\ ret' = NoRet
                    /\ UNCHANGED run ]_vars

\* A GET /check whose Authorization is "bEARer  k " has started a run that
\* probed the target.
C27_Witness ==
    /\ env.ADMIN_TOKEN = AdminToken
    /\ request # NoRequest
    /\ request.trigger = "fetch"
    /\ request.pathname = "/check"
    /\ request.authorization = Header(<<"b", "E", "A", "R", "e", "r", " ", " ", "k", " ">>)
    /\ request.xAdminToken = Header(<<"x">>)
    /\ pc = "loop"
    /\ idx = 2

\* A GET /status with a wrong Bearer token is answered 401 although its
\* X-Admin-Token is right; a POST with the right token is answered 405.
C27_WitnessRejected ==
    /\ env.ADMIN_TOKEN = AdminToken
    /\ request # NoRequest
    /\ request.trigger = "fetch"
    /\ request.pathname = "/status"
    /\ request.method = "GET"
    /\ request.authorization = Header(<<"B", "e", "a", "r", "e", "r", " ", "x">>)
    /\ request.xAdminToken = Header(AdminToken)
    /\ response = unauthorized

C27_WitnessMethod ==
    /\ env.ADMIN_TOKEN = AdminToken
    /\ request # NoRequest
    /\ request.trigger = "fetch"
    /\ request.method = "POST"
    /\ request.xAdminToken = Header(AdminToken)
    /\ response = methodNotAllowed

\* The change events of the targets processed so far: none for a target
\* whose status is what it was, one that names the two statuses otherwise.
eventsMatchFlips ==
    \A i \in Processed :
        eventsFor(nameAt(i)) =
            IF newAt(i).status = priorAt(i).status THEN <<>>
            ELSE <<[name |-> nameAt(i), from |-> priorAt(i).status, to |-> newAt(i).status,
                    usedUrl |-> resultAt(i).usedUrl]>>

\* C22: in every run each target produces no change event when its new
\* status is its prior status and exactly one when it differs; the summary
\* the run returns is the list of the run's change events, in the order of
\* the targets, when there is one, and the line 'OK - no changes' exactly
\* when no target changed status.
C22_OneEventPerFlip ==
    [][ /\ eventsMatchFlips'
        /\ (pc = "loop" /\ ret'.kind = "returned") =>
              /\ (ret'.msg.head = "OK - no changes") <=>
                    (\A i \in Processed : newAt(i).status = priorAt(i).status)
              /\ ret'.msg.head \in {"OK - no changes", "State changes:"}
              /\ ret'.msg.lines = changes
              /\ Len(changes) = Cardinality({i \in Processed : newAt(i).status # priorAt(i).status}) ]_vars

\* A run that returned a summary of two change events; a run in which one
\* target flipped and the other did not.
C22_Witness == ret.kind = "returned" /\ ret.msg.head = "State changes:" /\ Len(ret.msg.lines) = 2

C22_WitnessMixed ==
    /\ pc = "loop"
    /\ idx = 3
    /\ newAt(1).status = priorAt(1).status
    /\ newAt(2).status # priorAt(2).status
    /\ newAt(2).status = "OUT"

C22_WitnessQuiet == ret.kind = "returned" /\ ret.msg.head = "OK - no changes" /\ loadState(kv) # <<>>

(***************************************************************************)
(* A deployment whose tunables are edited between runs: runCheck reads     *)
(* them from env at the start of every run.                                *)
(***************************************************************************)
SetConfig ==
    /\ pc = "idle"
    /\ config' \in CheckConfigs \ {config}
    /\ UNCHANGED <<kv, clock, notifiers, targets, pc, state, now, idx, changes, results, outbox, history>>
    /\ UNCHANGED <<ret, aside>>

InitRedeploy ==
    /\ kv = AbsentBlob
    /\ clock = 1
    /\ config \in CheckConfigs
    /\ notifiers = buildNotifiers(1)
    /\ targets = <<2>>
    /\ pc = "idle"
    /\ state = <<>>
    /\ now = 0
    /\ idx = 1
    /\ changes = <<>>
    /\ results = <<>>
    /\ outbox = <<>>
    /\ history = [n \in Names |-> NoHistory]
    /\ ret = NoRet
    /\ env = DefaultEnv
    /\ request = NoRequest
    /\ response = NoResponse
    /\ probe = ProbeOff
    /\ fanout = FanoutOff
    /\ runs = NoRuns

NextRedeploy == RunCheckLoad \/ RunCheckTarget \/ RunCheckSave \/ SetConfig

SpecRedeploy == InitRedeploy /\ [][NextRedeploy]_vars

\* C24: a target that was IN and is still IN after a run has an inStreak no
\* smaller than before, and a target that is IN after an IN probe outcome
\* has an inStreak of at least inConfirmationsRequired, also when the
\* threshold was changed since the target flipped.
C24_StreakKeptWhileIn ==
    \A i \in Processed :
        /\ (priorAt(i).status = "IN" /\ newAt(i).status = "IN") =>
              newAt(i).inStreak >= priorAt(i).inStreak
        /\ (newAt(i).status = "IN" /\ resultAt(i).status = "IN") =>
              newAt(i).inStreak >= config.inConfirmationsRequired
        /\ (priorAt(i).status = "IN" /\ resultAt(i).status = "IN") =>
              newAt(i).inStreak = max2(priorAt(i).inStreak, config.inConfirmationsRequired)

\* An IN probe of a target that is IN with a streak above the threshold now
\* configured, and one with a streak below it.
C24_Witness ==
    \E i \in Processed :
        /\ priorAt(i).status = "IN"
        /\ resultAt(i).status = "IN"
        /\ priorAt(i).inStreak > config.inConfirmationsRequired

C24_WitnessRaised ==
    \E i \in Processed :
        /\ priorAt(i).status = "IN"
        /\ resultAt(i).status = "IN"
        /\ priorAt(i).inStreak < config.inConfirmationsRequired

(***************************************************************************)
(* The numeric tunables: utils.ts and their uses in monitor.ts.  A text is *)
(* a sequence of characters; the element "9{400}" stands for a run of 400  *)
(* nines.  A number is an integer, NaN or Infinity; an integer too large   *)
(* for the model's arithmetic is kept as 10^9, which is above every range. *)
(***************************************************************************)
Unset == [null |-> TRUE, value |-> <<>>]
Text(v) == [null |-> FALSE, value |-> v]

NaN == [kind |-> "nan", n |-> 0]
Infinity == [kind |-> "inf", n |-> 0]
Finite(n) == [kind |-> "int", n |-> n]

Digits == <<"0", "1", "2", "3", "4", "5", "6", "7", "8", "9">>

isDigit(c) == c = "9{400}" \/ \E d \in DOMAIN Digits : Digits[d] = c
digitOf(c) == IF c = "9{400}" THEN 9 ELSE (CHOOSE d \in DOMAIN Digits : Digits[d] = c) - 1
widthOf(c) == IF c = "9{400}" THEN 400 ELSE 1

\* The digits at the head of a text, read in radix 10: <<value, number of
\* digits>>.
RECURSIVE readDigits(_, _, _)
readDigits(v, acc, count) ==
    IF v = <<>> \/ ~isDigit(Head(v)) THEN <<acc, count>>
    ELSE readDigits(Tail(v),
                    IF widthOf(Head(v)) > 1 \/ acc >= 100000000 THEN 1000000000 ELSE acc * 10 + digitOf(Head(v)),
                    count + widthOf(Head(v)))

\* Number.parseInt(text, 10): leading white space, an optional sign, then
\* the longest run of digits; NaN when there is no digit, Infinity when the
\* digits exceed the range of a double.
parseInt(text) ==
    LET v == trimStart(text)
        signed == v # <<>> /\ Head(v) \in {"+", "-"}
        body == IF signed THEN Tail(v) ELSE v
        read == readDigits(body, 0, 0)
        sign == IF signed /\ Head(v) = "-" THEN -1 ELSE 1
    IN  IF read[2] = 0 THEN NaN
        ELSE IF read[2] > 309 THEN Infinity
        ELSE Finite(sign * read[1])

\* Faulty variant of envInt: an unparsable value counts as 0.
envIntZero(value, fallback) ==
    LET parsed == parseInt(IF value.null THEN <<>> ELSE value.value)
    IN  IF parsed.kind = "int" THEN parsed.n ELSE 0

\* envInt: Number.parseInt(value ?? '', 10), the fallback unless finite.
envInt(value, fallback) ==
    LET parsed == parseInt(IF value.null THEN <<>> ELSE value.value)
    IN  IF parsed.kind = "int" THEN parsed.n ELSE fallback

DEFAULTS ==
    [TIMEOUT_SEC |-> 15, CONFIRM_DELAY_MS |-> 2000, IN_CONFIRMATIONS_REQUIRED |-> 1,
     ERROR_STREAK_NOTIFY_THRESHOLD |-> 5, ERROR_NOTIFY_COOLDOWN_SEC |-> 1800]

\* The tunables probeTarget and runCheck compute from env.
tunables(e) ==
    [timeoutSec |-> clampInt(envInt(e.TIMEOUT_SEC, DEFAULTS.TIMEOUT_SEC), 1, 120),
     confirmDelayMs |-> clampInt(envInt(e.CONFIRM_DELAY_MS, DEFAULTS.CONFIRM_DELAY_MS), 0, 60000),
     inConfirmationsRequired |->
         clampInt(envInt(e.IN_CONFIRMATIONS_REQUIRED, DEFAULTS.IN_CONFIRMATIONS_REQUIRED), 1, 10),
     errorStreakNotifyThreshold |->
         clampInt(envInt(e.ERROR_STREAK_NOTIFY_THRESHOLD, DEFAULTS.ERROR_STREAK_NOTIFY_THRESHOLD), 1, 100),
     errorNotifyCooldownSec |->
         clampInt(envInt(e.ERROR_NOTIFY_COOLDOWN_SEC, DEFAULTS.ERROR_NOTIFY_COOLDOWN_SEC), 0, 86400)]

\* The values a variable of the environment is explored with: missing,
\* empty, not a number, with a fraction or a suffix, negative, at and around
\* the ends of the ranges, huge.
EnvValues ==
    { Unset, Text(<<>>), Text(<<"a", "b", "c">>), Text(<<" ">>), Text(<<"-">>),
      Text(<<"1", "2", ".", "5">>), Text(<<"7", "x">>), Text(<<" ", "+", "4", "2">>),
      Text(<<"-", "5">>), Text(<<"0">>), Text(<<"1">>), Text(<<"3">>),
      Text(<<"1", "0">>), Text(<<"1", "1">>),
      Text(<<"1", "0", "0">>), Text(<<"1", "0", "1">>),
      Text(<<"1", "2", "0">>), Text(<<"1", "2", "1">>),
      Text(<<"6", "0", "0", "0", "0">>), Text(<<"6", "0", "0", "0", "1">>),
      Text(<<"8", "6", "4", "0", "0">>), Text(<<"8", "6", "4", "0", "1">>),
      Text(<<"9", "9", "9", "9", "9", "9", "9", "9", "9", "9", "9", "9">>),
      Text(<<"9{400}">>), Text(<<"-", "9{400}">>),
      Text(<<"I", "n", "f", "i", "n", "i", "t", "y">>) }

Tunables ==
    {"TIMEOUT_SEC", "CONFIRM_DELAY_MS", "IN_CONFIRMATIONS_REQUIRED",
     "ERROR_STREAK_NOTIFY_THRESHOLD", "ERROR_NOTIFY_COOLDOWN_SEC"}

NoTunables == [k \in Tunables |-> Unset]

\* A run has not read env yet.
NoConfig ==
    [timeoutSec |-> 0, confirmDelayMs |-> 0, inConfirmationsRequired |-> 0,
     errorStreakNotifyThreshold |-> 0, errorNotifyCooldownSec |-> 0]

\* One variable of the environment is edited between two runs; at most two
\* variables are set at a time.
SetEnv ==
    /\ pc = "idle"
    /\ \E k \in Tunables, v \in EnvValues : env' = [env EXCEPT ![k] = v]
    /\ env' # env
    /\ Cardinality({k \in Tunables : env'[k] # Unset}) <= 2
    /\ config' = NoConfig
    /\ UNCHANGED <<kv, clock, notifiers, targets, pc, state, now, idx, changes, results, outbox, history>>
    /\ UNCHANGED <<ret, response, probe, fanout, runs, request>>

\* A run reads its tunables.
ReadEnv ==
    /\ pc = "idle"
    /\ config = NoConfig
    /\ config' = tunables(env)
    /\ UNCHANGED <<kv, clock, notifiers, targets, pc, state, now, idx, changes, results, outbox, history>>
    /\ UNCHANGED <<ret, response, probe, fanout, runs, env, request>>

\* A deployment that sets none of the variables.
InitEnv ==
    /\ kv = AbsentBlob
    /\ clock = 1
    /\ config = NoConfig
    /\ notifiers = buildNotifiers(1)
    /\ targets = <<1>>
    /\ pc = "idle"
    /\ state = <<>>
    /\ now = 0
    /\ idx = 1
    /\ changes = <<>>
    /\ results = <<>>
    /\ outbox = <<>>
    /\ history = [n \in Names |-> NoHistory]
    /\ ret = NoRet
    /\ env = NoTunables
    /\ request = NoRequest
    /\ response = NoResponse
    /\ probe = ProbeOff
    /\ fanout = FanoutOff
    /\ runs = NoRuns

NextEnv == SetEnv \/ ReadEnv

SpecEnv == InitEnv /\ [][NextEnv]_vars


\* The ranges and defaults the tunables are to have: <<field, min, max,
\* default>> per variable of the environment.
expected ==
    [TIMEOUT_SEC |-> <<"timeoutSec", 1, 120, 15>>,
     CONFIRM_DELAY_MS |-> <<"confirmDelayMs", 0, 60000, 2000>>,
     IN_CONFIRMATIONS_REQUIRED |-> <<"inConfirmationsRequired", 1, 10, 1>>,
     ERROR_STREAK_NOTIFY_THRESHOLD |-> <<"errorStreakNotifyThreshold", 1, 100, 5>>,
     ERROR_NOTIFY_COOLDOWN_SEC |-> <<"errorNotifyCooldownSec", 0, 86400, 1800>>]

\* C26: whatever the environment holds, every tunable a run uses lies in
\* its range; a value that does not parse to a finite integer (missing,
\* not a number, too large for a double) gives the default, a parsed value
\* gives itself inside the range, the minimum below it and the maximum
\* above it; and clampInt(v, min, max) is v, min or max accordingly.
C26_TunablesInRange ==
    /\ config # NoConfig =>
          \A k \in Tunables :
              LET field == expected[k][1]
                  lo == expected[k][2]
                  hi == expected[k][3]
                  parsed == parseInt(IF env[k].null THEN <<>> ELSE env[k].value)
              IN  /\ config[field] \in lo..hi
                  /\ parsed.kind # "int" => config[field] = expected[k][4]
                  /\ parsed.kind = "int" =>
                        config[field] = IF parsed.n < lo THEN lo ELSE IF parsed.n > hi THEN hi ELSE parsed.n
    /\ \A v \in -3..13, lo \in 0..1, hi \in {1, 10} :
          clampInt(v, lo, hi) = IF v < lo THEN lo ELSE IF v > hi THEN hi ELSE v

\* A run that read a negative, a huge and an unparsable value.
C26_Witness ==
    /\ config # NoConfig
    /\ env.ERROR_NOTIFY_COOLDOWN_SEC = Text(<<"-", "5">>)
    /\ env.TIMEOUT_SEC = Text(<<"9{400}">>)
    /\ config.timeoutSec = 15
    /\ config.errorNotifyCooldownSec = 0

C26_WitnessHuge ==
    /\ config # NoConfig
    /\ env.CONFIRM_DELAY_MS = Text(<<"9", "9", "9", "9", "9", "9", "9", "9", "9", "9", "9", "9">>)
    /\ env.ERROR_STREAK_NOTIFY_THRESHOLD = Text(<<"1", "2", ".", "5">>)
    /\ config.confirmDelayMs = 60000
    /\ config.errorStreakNotifyThreshold = 12

(***************************************************************************)
(* The target list: config.ts.  A JSON value is a record with its type; a  *)
(* text is a sequence of characters.                                       *)
(***************************************************************************)
MaxItems == 3

Undefined == [type |-> "undefined"]
JsonNull == [type |-> "null"]
JsonNumber == [type |-> "number"]
JsonString(v) == [type |-> "string", value |-> v]
JsonArray(items) == [type |-> "array", items |-> items]
JsonObject(fields) == [type |-> "object", fields |-> fields]

NoValue == [null |-> TRUE]

\* envString: the trimmed text, undefined when it is empty.
envString(value) ==
    IF value.null \/ trim(value.value) = <<>> THEN Unset ELSE Text(trim(value.value))

normalizeStringArray(value) ==
    IF value.type # "array" THEN <<>>
    ELSE LET kept == SelectSeq(value.items, LAMBDA x : x.type = "string" /\ trim(x.value) # <<>>)
         IN  [i \in 1..Len(kept) |-> trim(kept[i].value)]

isLetter(c) == c \in {"a", "g", "i", "o", "u", "t", "x", "m", "N", "M", "I"}

\* new RegExp(source, flags) does not throw: the source is a pattern and the
\* flags are distinct letters of "dgimsuvy".
regExpOk(source, flags) ==
    /\ source # <<"(">>
    /\ \A i \in DOMAIN flags : flags[i] \in {"d", "g", "i", "m", "s", "u", "v", "y"}
    /\ \A i, j \in DOMAIN flags : flags[i] = flags[j] => i = j

RegExp(source, flags) == IF regExpOk(source, flags) THEN [null |-> FALSE, source |-> source, flags |-> flags] ELSE NoValue

\* The position of the closing slash of /^\/(.+)\/([a-z]*)$/i in a text, 0
\* when the text does not match.
closingSlash(v) ==
    LET slashes == {j \in 3..Len(v) : v[j] = "/" /\ \A n \in (j + 1)..Len(v) : isLetter(v[n])}
    IN  IF v # <<>> /\ v[1] = "/" /\ slashes # {}
        THEN CHOOSE j \in slashes : \A other \in slashes : other <= j
        ELSE 0

\* Faulty variant of parseRegexJson: a pattern that does not compile is kept.
parseRegexJsonKeepingInvalid(value) ==
    IF value.type = "string" THEN [null |-> FALSE, source |-> value.value, flags |-> <<"i">>] ELSE NoValue

parseRegexJson(value) ==
    IF value.type = "string"
    THEN LET trimmed == trim(value.value)
             slash == closingSlash(trimmed)
         IN  IF trimmed = <<>> THEN NoValue
             ELSE IF slash > 0
                  THEN RegExp(SubSeq(trimmed, 2, slash - 1), SubSeq(trimmed, slash + 1, Len(trimmed)))
                  ELSE RegExp(trimmed, <<"i">>)
    ELSE IF value.type = "object"
    THEN LET source == IF value.fields.source.type = "string" THEN value.fields.source.value ELSE <<>>
             flags == IF value.fields.flags.type = "string" THEN value.fields.flags.value ELSE <<"i">>
         IN  IF source = <<>> THEN NoValue ELSE RegExp(source, flags)
    ELSE NoValue

\* Faulty variant of parseTargetJson: the name is not looked at.
parseTargetJsonAnyName(value) ==
    IF value.type # "object" THEN NoValue
    ELSE [null |-> FALSE,
          target |-> [name |-> IF value.fields.name.type = "string" THEN value.fields.name.value ELSE <<>>,
                      urls |-> normalizeStringArray(value.fields.urls),
                      mustContainAny |-> normalizeStringArray(value.fields.mustContainAny),
                      outOfStockRegex |-> <<>>]]

parseTargetJson(value) ==
    IF value.type # "object" THEN NoValue
    ELSE LET name == IF value.fields.name.type = "string" THEN trim(value.fields.name.value) ELSE <<>>
             urls == normalizeStringArray(value.fields.urls)
             mustContainAny == normalizeStringArray(value.fields.mustContainAny)
             raw == IF value.fields.outOfStockRegex.type = "array" THEN value.fields.outOfStockRegex.items ELSE <<>>
             parsed == [i \in 1..Len(raw) |-> parseRegexJson(raw[i])]
             outOfStockRegex == SelectSeq(parsed, LAMBDA re : ~re.null)
         IN  IF name = <<>> THEN NoValue
             ELSE IF Len(urls) = 0 \/ Len(mustContainAny) = 0 THEN NoValue
             ELSE IF Len(outOfStockRegex) = 0 THEN NoValue
             ELSE [null |-> FALSE,
                   target |-> [name |-> name, urls |-> urls, mustContainAny |-> mustContainAny,
                               outOfStockRegex |-> outOfStockRegex]]

parseTargetsJson(value) ==
    IF value.type # "array" THEN NoValue
    ELSE LET parsed == [i \in 1..Len(value.items) |-> parseTargetJson(value.items[i])]
             kept == SelectSeq(parsed, LAMBDA t : ~t.null)
             list == [i \in 1..Len(kept) |-> kept[i].target]
         IN  IF Len(list) > 0 THEN [null |-> FALSE, targets |-> list] ELSE NoValue

\* JSON.parse(raw): the value a text denotes, or an exception.
NotJson == [throws |-> TRUE, value |-> Undefined]
Json(value) == [throws |-> FALSE, value |-> value]

\* TARGETS_JSON: a text and what JSON.parse makes of it.
Raw(text, parse) == [null |-> FALSE, value |-> text, parse |-> parse]

getTargets(e) ==
    LET raw == envString(e.TARGETS_JSON)
    IN  IF raw.null THEN TARGETS
        ELSE IF e.TARGETS_JSON.parse.throws THEN TARGETS
        ELSE LET list == parseTargetsJson(e.TARGETS_JSON.parse.value)
             IN  IF ~list.null THEN list.targets ELSE TARGETS

\* The items TARGETS_JSON is explored with: two valid descriptors, and
\* descriptors with one field wrong.
ValidItem ==
    [name |-> JsonString(<<" ", "N", " ">>),
     urls |-> JsonArray(<<JsonString(<<" ", "u">>), JsonNumber, JsonString(<<" ">>)>>),
     mustContainAny |-> JsonArray(<<JsonString(<<"m">>)>>),
     outOfStockRegex |-> JsonArray(<<JsonString(<<"(">>), JsonString(<<"/", "o", "u", "t", "/", "g", "i">>)>>)]

OtherItem ==
    [name |-> JsonString(<<"M">>),
     urls |-> JsonArray(<<JsonString(<<"u">>)>>),
     mustContainAny |-> JsonArray(<<JsonString(<<"m">>), JsonString(<<"x">>)>>),
     outOfStockRegex |-> JsonArray(<<JsonObject([source |-> JsonString(<<"o", "u", "t">>), flags |-> Undefined])>>)]

JsonItems ==
    { JsonObject(ValidItem), JsonObject(OtherItem), JsonNull, JsonString(<<"N">>), JsonArray(<<>>),
      JsonObject([ValidItem EXCEPT !.name = JsonNumber]),
      JsonObject([ValidItem EXCEPT !.name = JsonString(<<" ">>)]),
      JsonObject([ValidItem EXCEPT !.urls = Undefined]),
      JsonObject([ValidItem EXCEPT !.urls = JsonArray(<<JsonString(<<" ">>), JsonNumber>>)]),
      JsonObject([ValidItem EXCEPT !.mustContainAny = JsonArray(<<>>)]),
      JsonObject([ValidItem EXCEPT !.outOfStockRegex = JsonString(<<"o", "u", "t">>)]),
      JsonObject([ValidItem EXCEPT !.outOfStockRegex = JsonArray(<<JsonString(<<"(">>), JsonString(<<"/", "o", "/", "x">>)>>)]),
      JsonObject([ValidItem EXCEPT !.outOfStockRegex =
          JsonArray(<<JsonObject([source |-> JsonString(<<>>), flags |-> JsonString(<<"i">>)]),
                      JsonObject([source |-> JsonString(<<"o">>), flags |-> JsonString(<<"i", "i">>)])>>)]) }

JsonLists == UNION {[1..n -> JsonItems] : n \in 0..MaxItems}

TargetsJsonValues ==
    {Unset, Raw(<<" ">>, NotJson), Raw(<<"[", "{">>, NotJson),
     Raw(<<"{", "}">>, Json(JsonObject([name |-> Undefined, urls |-> Undefined, mustContainAny |-> Undefined,
                                        outOfStockRegex |-> Undefined]))),
     Raw(<<"n", "u", "l", "l">>, Json(JsonNull))}
    \cup {Raw(<<"[", "]">>, Json(JsonArray(list))) : list \in JsonLists}

\* A run reads its target list.
GetTargets ==
    /\ pc = "idle"
    /\ now = 0
    /\ now' = clock
    /\ targets' = getTargets(env)
    /\ UNCHANGED <<kv, clock, config, notifiers, pc, state, idx, changes, results, outbox, history>>
    /\ UNCHANGED <<ret, response, probe, fanout, runs, env, request>>

\* A deployment with any of the values of TARGETS_JSON, before its first run.
InitConfig ==
    /\ kv = AbsentBlob
    /\ clock = 1
    /\ config \in {c \in CheckConfigs : c.inConfirmationsRequired = 1 /\ c.errorNotifyCooldownSec = 0}
    /\ notifiers = buildNotifiers(1)
    /\ targets = <<>>
    /\ pc = "idle"
    /\ state = <<>>
    /\ now = 0
    /\ idx = 1
    /\ changes = <<>>
    /\ results = <<>>
    /\ outbox = <<>>
    /\ history = [n \in Names |-> NoHistory]
    /\ ret = NoRet
    /\ env \in [TARGETS_JSON : TargetsJsonValues]
    /\ request = NoRequest
    /\ response = NoResponse
    /\ probe = ProbeOff
    /\ fanout = FanoutOff
    /\ runs = NoRuns

NextConfig == GetTargets

SpecConfig == InitConfig /\ [][NextConfig]_vars


\* A text with a character that is not white space.
hasText(value) == value.type = "string" /\ \E i \in DOMAIN value.value : value.value[i] # " "

\* An item of TARGETS_JSON that is a descriptor: an object with a name, a
\* URL, a marker and a pattern.
wellFormed(item) ==
    /\ item.type = "object"
    /\ hasText(item.fields.name)
    /\ item.fields.urls.type = "array"
    /\ \E i \in DOMAIN item.fields.urls.items : hasText(item.fields.urls.items[i])
    /\ item.fields.mustContainAny.type = "array"
    /\ \E i \in DOMAIN item.fields.mustContainAny.items : hasText(item.fields.mustContainAny.items[i])
    /\ item.fields.outOfStockRegex.type = "array"
    /\ \E i \in DOMAIN item.fields.outOfStockRegex.items : ~parseRegexJson(item.fields.outOfStockRegex.items[i]).null

\* C28: the target list a run uses is never empty and each of its
\* descriptors has a non-empty name, a URL, a marker and a pattern that
\* compiles.  It is the built-in list when TARGETS_JSON is unset, blank,
\* not JSON, not an array or without a well-formed item; otherwise it is
\* the well-formed items of the array, in the order of the array.
C28_TargetsAreValid ==
    now # 0 =>
        LET raw == env.TARGETS_JSON
            items == IF ~raw.null /\ ~raw.parse.throws /\ raw.parse.value.type = "array"
                     THEN raw.parse.value.items ELSE <<>>
            valid == SelectSeq(items, wellFormed)
        IN  /\ Len(targets) > 0
            /\ \A i \in DOMAIN TARGETS :
                  /\ TARGETS[i].name # ""
                  /\ Len(TARGETS[i].urls) > 0
                  /\ TARGETS[i].mustContainAny # {}
                  /\ TARGETS[i].outOfStockRegex # {}
            /\ IF raw.null \/ (\A i \in DOMAIN raw.value : raw.value[i] = " ") \/ Len(valid) = 0
               THEN targets = TARGETS
               ELSE /\ Len(targets) = Len(valid)
                    /\ \A i \in DOMAIN targets :
                          /\ targets[i].name = trim(valid[i].fields.name.value)
                          /\ targets[i].name # <<>>
                          /\ Len(targets[i].urls) > 0
                          /\ \A u \in DOMAIN targets[i].urls : targets[i].urls[u] # <<>>
                          /\ Len(targets[i].mustContainAny) > 0
                          /\ Len(targets[i].outOfStockRegex) > 0
                          /\ \A r \in DOMAIN targets[i].outOfStockRegex :
                                regExpOk(targets[i].outOfStockRegex[r].source, targets[i].outOfStockRegex[r].flags)

\* An array whose second item is not a descriptor yields its first and
\* third items, in that order.
C28_Witness ==
    /\ now # 0
    /\ ~env.TARGETS_JSON.null
    /\ ~env.TARGETS_JSON.parse.throws
    /\ env.TARGETS_JSON.parse.value.type = "array"
    /\ Len(env.TARGETS_JSON.parse.value.items) = 3
    /\ env.TARGETS_JSON.parse.value.items[1] = JsonObject(OtherItem)
    /\ ~wellFormed(env.TARGETS_JSON.parse.value.items[2])
    /\ env.TARGETS_JSON.parse.value.items[3] = JsonObject(ValidItem)
    /\ Len(targets) = 2
    /\ targets[2].name = <<"N">>

\* An array without a descriptor, and a text that is not JSON, yield the
\* built-in list.
C28_WitnessFallback ==
    /\ now # 0
    /\ ~env.TARGETS_JSON.null
    /\ ~env.TARGETS_JSON.parse.throws
    /\ env.TARGETS_JSON.parse.value.type = "array"
    /\ Len(env.TARGETS_JSON.parse.value.items) = 2
    /\ targets = TARGETS

C28_WitnessNotJson == now # 0 /\ ~env.TARGETS_JSON.null /\ env.TARGETS_JSON.parse.throws /\ targets = TARGETS

\* The URLs the probe reached whose first read looked purchasable and whose
\* confirmation read failed.
ReachedUnconfirmed ==
    {i \in Unconfirmed : \A j \in 1..(i - 1) : urlOutcome(probedTarget, probe.reads[j]) = "FAIL"}

C29_WitnessLater ==
    /\ probe.stage = "done"
    /\ 1 \in ReachedUnconfirmed
    /\ probe.result.status = "IN"
    /\ probe.result.usedUrl = probedTarget.urls[2]

\* C23: inSinceTs is 0 in every record whose status is OUT and is the
\* timestamp of the run of the latest OUT -> IN in every record whose status
\* is IN; an IN or ERROR outcome of a target that is IN leaves it as it is.
C23_InSinceIsFlipTime ==
    /\ \A i \in Processed :
          /\ newAt(i).status = "OUT" => newAt(i).inSinceTs = 0
          /\ newAt(i).status = "IN" => newAt(i).inSinceTs = history[nameAt(i)].flipTs
          /\ (priorAt(i).status = "OUT" /\ newAt(i).status = "IN") => newAt(i).inSinceTs = now
          /\ (priorAt(i).status = "IN" /\ resultAt(i).status \in {"IN", "ERROR"}) =>
                newAt(i).inSinceTs = priorAt(i).inSinceTs
    /\ pc = "idle" =>
          \A n \in DOMAIN loadState(kv) :
              loadState(kv)[n].inSinceTs =
                  IF loadState(kv)[n].status = "OUT" THEN 0 ELSE history[n].flipTs

\* A target that became IN in an earlier second fails its probe: inSinceTs
\* is still the second of the flip.
C23_Witness ==
    \E i \in Processed :
        /\ priorAt(i).status = "IN"
        /\ resultAt(i).status = "ERROR"
        /\ newAt(i).inSinceTs = 1
        /\ now = 2

\* C25: an OUT outcome for a record whose status is OUT emits no change
\* event, sends nothing and leaves the status OUT; a second OUT outcome
\* after any OUT outcome changes none of status, inStreak, inSinceTs,
\* errStreak and the three notification timestamps.
C25_OutIsIdempotent ==
    \A i \in Processed :
        resultAt(i).status = "OUT" =>
            /\ priorAt(i).status = "OUT" =>
                  /\ Len(eventsFor(nameAt(i))) = 0
                  /\ Len(callsFor(nameAt(i))) = 0
                  /\ newAt(i).status = "OUT"
            /\ \A r \in ProbeResults[targets[i]], t \in now..MaxTime, settled \in SettledOf(notifiers) :
                  r.status = "OUT" =>
                      LET again == handleResult(newAt(i), r, nameAt(i), t, config, notifiers, settled)
                      IN  /\ again.ctx = contextOf(newAt(i))
                          /\ again.changes = <<>>
                          /\ again.calls = <<>>

\* A target that is OUT, with a past of alerts, probes OUT.
C25_Witness ==
    \E i \in Processed :
        /\ resultAt(i).status = "OUT"
        /\ priorAt(i).status = "OUT"
        /\ priorAt(i).lastInNotifyOkTs > 0
        /\ priorAt(i).lastErrNotifyTs > 0

\* C30: for every record whose status is IN, lastInNotifyOkTs < inSinceTs
\* exactly when no restock alert has reached a channel since the latest
\* OUT -> IN.
C30_RetryEncodingExact ==
    /\ \A i \in Processed :
          newAt(i).status = "IN" =>
              (newAt(i).lastInNotifyOkTs < newAt(i).inSinceTs <=> ~history[nameAt(i)].ok)
    /\ pc = "idle" =>
          \A n \in DOMAIN loadState(kv) :
              loadState(kv)[n].status = "IN" =>
                  (loadState(kv)[n].lastInNotifyOkTs < loadState(kv)[n].inSinceTs <=> ~history[n].ok)

\* C31: the alerts of a run and its snapshot write go together: a run in
\* which an alert reached a channel ends by writing its in-memory map, so
\* that the next run starts from the record the alert belongs to.
C31_AlertsArePersisted ==
    [][ (pc = "loop" /\ pc' = "idle" /\ \E c \in DOMAIN outbox : outbox[c].result.sent > 0) =>
            (ret'.kind = "returned" /\ kv' = saveState(state)) ]_vars

\* The record of a name as the run in progress has it: the new record once
\* the name was processed, the stored one (or the defaults) before.
recordOf(n) == IF pc = "loop" /\ n \in DOMAIN state THEN state[n] ELSE withDefaults(loadState(kv), n)

C32_WitnessSuppressed ==
    \E i \in Processed :
        /\ config.errorNotifyCooldownSec = 1
        /\ priorAt(i).lastErrNotifyTs = now
        /\ resultAt(i).status = "ERROR"
        /\ priorAt(i).errStreak >= config.errorStreakNotifyThreshold
        /\ errorCallsFor(nameAt(i)) = <<>>

\* C33: an error fan-out that reaches no channel leaves lastErrNotifyTs as
\* it was, and when the latest run of a target made such a fan-out and the
\* target's next run has the outcome ERROR, that run makes the error
\* fan-out again.
C33_FailedErrorAlertIsRetried ==
    [][ (pc = "loop" /\ pc' = "loop" /\ idx' = idx + 1) =>
          LET n == nameAt(idx)
              made == {c \in (Len(outbox) + 1)..Len(outbox') : outbox'[c].kind = "error"}
          IN  /\ (\E c \in made : outbox'[c].result.sent = 0) =>
                    state'[n].lastErrNotifyTs = withDefaults(state, n).lastErrNotifyTs
              /\ (history[n].errFailed /\ results'[idx].status = "ERROR") => made # {} ]_vars

\* A second consecutive error fan-out that reached none of the configured
\* channels: the one before it failed too, one cooldown ago or more.
C33_Witness ==
    \E i \in Processed :
        /\ Len(notifiers) > 0
        /\ config.errorNotifyCooldownSec = 1
        /\ priorAt(i).errStreak >= config.errorStreakNotifyThreshold
        /\ priorAt(i).lastErrNotifyTs = 0
        /\ history[nameAt(i)].errFailed
        /\ newAt(i).lastErrNotifyTs = 0
        /\ newAt(i).ts = priorAt(i).ts


(***************************************************************************)
(* The error cooldown across a recovery.                                   *)
(***************************************************************************)
\* C34: an OUT or IN probe outcome resets errStreak and leaves
\* lastErrNotifyTs as it was, so a failing probe that comes less than
\* errorNotifyCooldownSec after the last delivered error alert sends no
\* error alert, whether or not the target recovered in between.
C34_CooldownSurvivesRecovery ==
    \A i \in Processed :
        /\ resultAt(i).status \in {"OUT", "IN"} =>
              /\ newAt(i).lastErrNotifyTs = priorAt(i).lastErrNotifyTs
              /\ newAt(i).errStreak = 0
        /\ ( /\ resultAt(i).status = "ERROR"
             /\ history[nameAt(i)].errOkTs # 0
             /\ priorAt(i).lastErrNotifyTs = history[nameAt(i)].errOkTs
             /\ now - history[nameAt(i)].errOkTs < config.errorNotifyCooldownSec ) =>
                errorCallsFor(nameAt(i)) = <<>>

\* A new streak (the counter was reset after the delivered alert) reaches the
\* threshold within the cooldown, and no error alert is sent.
C34_Witness ==
    \E i \in Processed :
        /\ resultAt(i).status = "ERROR"
        /\ priorAt(i).lastErrNotifyTs # 0
        /\ priorAt(i).errStreak = config.errorStreakNotifyThreshold - 1
        /\ newAt(i).errStreak = config.errorStreakNotifyThreshold
        /\ now - priorAt(i).lastErrNotifyTs < config.errorNotifyCooldownSec
        /\ errorCallsFor(nameAt(i)) = <<>>


(***************************************************************************)
(* The two restock notification timestamps.                                *)
(***************************************************************************)
\* C35: in every record lastInNotifyOkTs <= lastInNotifyAttemptTs; a run
\* that makes a restock fan-out (first or retry) sets lastInNotifyAttemptTs
\* to now and sets lastInNotifyOkTs to now exactly when the fan-out reports
\* sent > 0; a run without a restock fan-out changes neither field, and OUT
\* and ERROR outcomes make no restock fan-out.
C35_RestockTimestamps ==
    /\ \A n \in Names : recordOf(n).lastInNotifyOkTs <= recordOf(n).lastInNotifyAttemptTs
    /\ \A i \in Processed :
          LET calls == restockCallsFor(nameAt(i))
              delivered == \E c \in DOMAIN calls : calls[c].result.sent > 0
          IN  /\ resultAt(i).status \in {"OUT", "ERROR"} => calls = <<>>
              /\ calls = <<>> =>
                    /\ newAt(i).lastInNotifyAttemptTs = priorAt(i).lastInNotifyAttemptTs
                    /\ newAt(i).lastInNotifyOkTs = priorAt(i).lastInNotifyOkTs
              /\ calls # <<>> =>
                    /\ newAt(i).lastInNotifyAttemptTs = now
                    /\ newAt(i).lastInNotifyOkTs = IF delivered THEN now ELSE priorAt(i).lastInNotifyOkTs

\* A restock fan-out that reaches no channel while an earlier one had: the
\* attempt is stamped, the older success is kept.
C35_Witness ==
    \E i \in Processed :
        LET calls == restockCallsFor(nameAt(i))
        IN  /\ calls # <<>>
            /\ \A c \in DOMAIN calls : calls[c].result.sent = 0
            /\ priorAt(i).lastInNotifyOkTs # 0
            /\ newAt(i).lastInNotifyOkTs < newAt(i).lastInNotifyAttemptTs


(***************************************************************************)
(* Status and confirmation streak.                                         *)
(***************************************************************************)
\* C36: with inConfirmationsRequired fixed, every record (stored, or being
\* built by the run in progress) has inStreak < inConfirmationsRequired
\* while its status is OUT and inStreak >= inConfirmationsRequired while
\* its status is IN.
C36_StreakMatchesStatus ==
    \A n \in Names :
        /\ recordOf(n).status = "OUT" => recordOf(n).inStreak < config.inConfirmationsRequired
        /\ recordOf(n).status = "IN" => recordOf(n).inStreak >= config.inConfirmationsRequired

\* The last of several confirmations: the streak reaches the threshold in
\* the run that flips the status.
C36_Witness ==
    \E i \in Processed :
        /\ resultAt(i).status = "IN"
        /\ priorAt(i).status = "OUT"
        /\ priorAt(i).inStreak = config.inConfirmationsRequired - 1
        /\ priorAt(i).inStreak > 0
        /\ newAt(i).status = "IN"
        /\ newAt(i).inStreak = config.inConfirmationsRequired


(***************************************************************************)
(* Independence of the targets of one run.                                 *)
(***************************************************************************)
\* C37: in a loop iteration the new record, the change events and the
\* alerts of the target are those computed from its own stored record, its
\* own probe outcome, the run's timestamp, the configuration and the
\* outcomes of its own fan-out, whatever the iterations of the other
\* targets did before; the iteration changes no other target's record.
C37_TargetsAreIndependent ==
    [][ (pc = "loop" /\ pc' = "loop" /\ idx' = idx + 1) =>
          LET n == nameAt(idx)
              result == results'[idx]
          IN  /\ \E settled \in SettledOf(notifiers) :
                    LET out == handleResult(withDefaults(loadState(kv), n), result, n, now,
                                            config, notifiers, settled)
                    IN  /\ state'[n] = buildTargetState(out.ctx, result, now)
                        /\ changes' = changes \o out.changes
                        /\ outbox' = outbox \o out.calls
              /\ DOMAIN state' = DOMAIN state \cup {n}
              /\ \A m \in DOMAIN state \ {n} : state'[m] = state[m] ]_vars

\* Two targets processed in one run with opposite flips: one goes OUT -> IN
\* and is alerted, the other goes IN -> OUT without any alert.
C37_Witness ==
    \E i, j \in Processed :
        /\ nameAt(i) # nameAt(j)
        /\ priorAt(i).status = "OUT" /\ newAt(i).status = "IN"
        /\ priorAt(j).status = "IN" /\ newAt(j).status = "OUT"
        /\ restockCallsFor(nameAt(i)) # <<>>
        /\ callsFor(nameAt(j)) = <<>>


(***************************************************************************)
(* A stored blob that is not the JSON of an object.  The value under key   *)
(* 'state' can be changed from outside the worker between two runs: the    *)
(* key deleted, the text cut short, the text replaced by a JSON array.     *)
(* The field value of a damaged blob is what the text held of the records  *)
(* before the damage; loadState does not reach it.                         *)
(***************************************************************************)
BadBlobKinds == {"absent", "invalid", "array"}

\* The stored text is damaged while no run is in progress.
Damage ==
    /\ pc = "idle"
    /\ kv.kind = "object"
    /\ \E k \in BadBlobKinds : kv' = [kind |-> k, value |-> kv.value]
    /\ UNCHANGED <<clock, config, notifiers, targets, pc, state, now, idx, changes, results, outbox, history>>
    /\ UNCHANGED <<ret, aside>>

InitBlob == InitTargets

NextBlob ==
    \/ Tick
    \/ RunCheckLoad
    \/ RunCheckTargetWith(HealthyProbeResults)
    \/ RunCheckSave
    \/ Damage

SpecBlob == InitBlob /\ [][NextBlob]_vars

\* C38: when the stored blob is absent, is not JSON or is not a JSON
\* object, the run starts from the empty map without failing; every target
\* is then handled from the zero defaults, so an IN probe that completes the
\* confirmations flips it to IN with a change event and a restock alert
\* even if it was IN and alerted before the damage; and the run's snapshot
\* write replaces the blob by the JSON of the map of this run's records.
C38_BadBlobResetsEveryTarget ==
    [][ kv.kind # "object" =>
          /\ (pc = "idle" /\ pc' = "loop") => (state' = <<>> /\ ret' = NoRet)
          /\ (pc = "loop" /\ pc' = "loop" /\ idx' = idx + 1) =>
                LET n == nameAt(idx)
                    result == results'[idx]
                    made == {c \in (Len(outbox) + 1)..Len(outbox') : outbox'[c].kind = "restock"}
                IN  /\ withDefaults(state, n) = getDefaultTargetState
                    /\ (result.status = "IN" /\ confirmationsReached(1, config)) =>
                          /\ state'[n].status = "IN"
                          /\ state'[n].inSinceTs = now
                          /\ Len(changes') = Len(changes) + 1
                          /\ changes'[Len(changes')] =
                                [name |-> n, from |-> "OUT", to |-> "IN", usedUrl |-> result.usedUrl]
                          /\ made # {}
          /\ (pc = "loop" /\ pc' = "idle") =>
                /\ ret'.kind = "returned"
                /\ kv' = stringify(state)
                /\ DOMAIN loadState(kv') = namesOf(targets) ]_vars

\* A target whose record in the damaged text was IN with a delivered restock
\* alert has been flipped to IN again, with a new alert that reached a
\* channel.
C38_Witness ==
    /\ kv.kind \in BadBlobKinds \ {"absent"}
    /\ \E i \in Processed :
          LET n == nameAt(i)
          IN  /\ n \in DOMAIN kv.value
              /\ kv.value[n].status = "IN"
              /\ kv.value[n].lastInNotifyOkTs >= kv.value[n].inSinceTs
              /\ newAt(i).status = "IN"
              /\ eventsFor(n) # <<>>
              /\ \E c \in DOMAIN outbox :
                    outbox[c].name = n /\ outbox[c].kind = "restock" /\ outbox[c].result.sent > 0


(***************************************************************************)
(* Termination.  The run with its probes step by step: every iteration of  *)
(* runCheck's loop awaits probeTarget, whose fetches are the steps of the   *)
(* probe above; fetchUrl returns for every fetch (its timeout aborts the   *)
(* request and the catch returns { html: null, status: 0 }).  At most one  *)
(* run is started per clock value.                                         *)
(***************************************************************************)
\* The answers of the network to a probe, told apart by the fetches the
\* probe makes: the confirmation read of a URL is made only after a first
\* read that looks purchasable, and a URL is fetched only when every URL
\* before it gave no verdict; a read that is not made is set to the first
\* read of its URL, or of the first URL.
ReadsMade(target) ==
    {reads \in AllReadsOf(target) :
        \A u \in DOMAIN target.urls :
            /\ ~(readOk(target, reads[u][1]) /\ ~readOut(target, reads[u][1])) => reads[u][2] = reads[u][1]
            /\ (\E w \in 1..(u - 1) : urlOutcome(target, reads[w]) # "FAIL") => reads[u] = reads[1]}

\* runCheck from its entry to the loop.
RunStart ==
    /\ now < clock
    /\ probe = ProbeOff
    /\ loadStep
    /\ UNCHANGED aside

\* const result = await probeTarget(target, env, browserHeaders): the call.
ProbeStart ==
    /\ pc = "loop"
    /\ ~loopDone(idx, targets)
    /\ probe = ProbeOff
    /\ \E reads \in ReadsMade(targetAt(targets, idx)) :
          probe' = [stage |-> "first", target |-> targets[idx], reads |-> reads, i |-> 1,
                    lastReason |-> <<"fetch_failed">>, lastUsedUrl |-> Null,
                    log |-> <<>>, result |-> NoResult]
    /\ UNCHANGED <<kv, clock, config, notifiers, targets, pc, state, now, idx, changes, results, outbox, history>>
    /\ UNCHANGED <<ret, response, fanout, runs, env, request>>

\* The rest of the iteration, once probeTarget has returned.
RunTarget ==
    /\ probe # ProbeOff
    /\ probe.stage = "done"
    /\ loopStep([i \in DOMAIN TARGETS |-> {probe.result}])
    /\ probe' = ProbeOff
    /\ UNCHANGED <<response, fanout, runs, env, request>>

InitRun ==
    /\ Init
    /\ config.inConfirmationsRequired = 1
    /\ config.errorNotifyCooldownSec = 0
    /\ Len(notifiers) = 1

progress ==
    \/ ProbeStart
    \/ ProbeFirstRead
    \/ ProbeConfirmRead
    \/ ProbeFail
    \/ RunTarget
    \/ RunCheckSave

NextRun == Tick \/ RunStart \/ progress

\* An async function goes on as soon as the promise it awaits has settled.
SpecRun == InitRun /\ [][NextRun]_vars /\ WF_vars(progress)

\* The fetches made of a URL in the probe in progress.
fetchesOf(url) == {a \in DOMAIN probe.log : probe.log[a].url = url}

\* C39: a probe makes at most two fetches of each URL, at most twice as
\* many fetches as the target has URLs, goes through the URLs in list order
\* without coming back to one, and ends with OUT, IN or ERROR; every probe
\* that has started returns, and every run that has entered its loop
\* reaches the snapshot write and returns.
C39_ProbesAndRunsTerminate ==
    /\ [](probe # ProbeOff =>
            LET urls == TARGETS[probe.target].urls
            IN  /\ Len(probe.log) <= 2 * Len(urls)
                /\ \A u \in 1..Len(urls) : Cardinality(fetchesOf(urls[u])) <= 2
                /\ \A a, b \in DOMAIN probe.log :
                      a < b => \E u, v \in 1..Len(urls) :
                                  u <= v /\ probe.log[a].url = urls[u] /\ probe.log[b].url = urls[v]
                /\ probe.stage = "done" => probe.result.status \in {"OUT", "IN", "ERROR"})
    /\ (probe # ProbeOff) ~> (probe # ProbeOff /\ probe.stage = "done")
    /\ (pc = "loop") ~> (pc = "idle" /\ ret.kind = "returned" /\ kv.kind = "object" /\ kv.value # <<>>)

\* A probe that used every fetch it can make: two of each of two URLs, and
\* the run that awaited it has written its snapshot.
C39_WitnessProbe ==
    /\ probe # ProbeOff
    /\ probe.stage = "done"
    /\ Len(probe.log) = 4

C39_Witness ==
    /\ pc = "idle"
    /\ ret.kind = "returned"
    /\ kv.kind = "object"
    /\ "A" \in DOMAIN kv.value
    /\ kv.value["A"].lastReason # <<>>
    /\ kv.value["A"].errStreak >= 2


(***************************************************************************)
(* Records written by an earlier iteration of runCheck, which kept neither *)
(* inSinceTs nor the two restock notification timestamps.                  *)
(***************************************************************************)
legacyFields == {"status", "inStreak", "errStreak", "lastErrNotifyTs", "lastUsedUrl", "lastReason", "ts"}

\* state[name] = { status: prevStatus, inStreak, errStreak, lastErrNotifyTs,
\*                 lastUsedUrl, lastReason, ts } of the earlier iteration.
legacyRecord(rec) == [f \in legacyFields |-> rec[f]]

\* The snapshots the earlier iteration leaves after its first run of the one
\* target at the clock's first value, where its fields are computed as they
\* are now: one probe result applied to the defaults.
LegacySnapshots ==
    {stringify([n \in {TARGETS[1].name} |->
        legacyRecord(buildTargetState(
            handleResult(getDefaultTargetState, result, n, 1,
                         [inConfirmationsRequired |-> 1, errorStreakNotifyThreshold |-> 2,
                          errorNotifyCooldownSec |-> 0],
                         <<>>, <<>>).ctx,
            result, 1))]) : result \in ProbeResults[1]}

\* The worker is replaced by the present one over the earlier one's snapshot.
InitLegacy ==
    /\ kv \in LegacySnapshots
    /\ clock = 1
    /\ config = [inConfirmationsRequired |-> 1, errorStreakNotifyThreshold |-> 2,
                 errorNotifyCooldownSec |-> 0]
    /\ notifiers = buildNotifiers(1)
    /\ targets = <<1>>
    /\ pc = "idle"
    /\ state = <<>>
    /\ now = 0
    /\ idx = 1
    /\ changes = <<>>
    /\ results = <<>>
    /\ outbox = <<>>
    /\ history = [n \in Names |-> NoHistory]
    /\ ret = NoRet
    /\ env = DefaultEnv
    /\ request = NoRequest
    /\ response = NoResponse
    /\ probe = ProbeOff
    /\ fanout = FanoutOff
    /\ runs = NoRuns

SpecLegacy == InitLegacy /\ [][Next]_vars

\* The stored record of the target at loop position i.
storedAt(i) == loadState(kv)[nameAt(i)]

\* C40: a stored record that lacks fields is read with the zero default in
\* each missing field and the stored value in every other; a record that
\* is IN with inSinceTs = 0 (the earlier iteration's IN record, and what
\* the runs make of it while the target stays IN) gets no restock alert and
\* no change event from an IN or ERROR probe and stays as it is in these
\* fields; restock alerts come only with a flip OUT -> IN or as the retry
\* of one.
C40_LegacyRecordCompleted ==
    \A i \in Processed :
        /\ DOMAIN storedAt(i) = legacyFields =>
              priorAt(i) = [f \in DOMAIN getDefaultTargetState |->
                              IF f \in legacyFields THEN storedAt(i)[f] ELSE 0]
        /\ (priorAt(i).status = "IN" /\ priorAt(i).inSinceTs = 0 /\ resultAt(i).status # "OUT") =>
              /\ restockCallsFor(nameAt(i)) = <<>>
              /\ eventsFor(nameAt(i)) = <<>>
              /\ newAt(i).status = "IN"
              /\ newAt(i).inSinceTs = 0
              /\ newAt(i).lastInNotifyOkTs = 0
        /\ restockCallsFor(nameAt(i)) # <<>> =>
              \/ priorAt(i).status = "OUT" /\ newAt(i).status = "IN" /\ newAt(i).inSinceTs = now
              \/ priorAt(i).status = "IN" /\ priorAt(i).inSinceTs # 0

\* An IN probe of the earlier iteration's IN record, without an alert.
C40_Witness ==
    \E i \in Processed :
        /\ DOMAIN storedAt(i) = legacyFields
        /\ storedAt(i).status = "IN"
        /\ resultAt(i).status = "IN"
        /\ outbox = <<>>

\* The target went OUT and is flipped to IN again, with an alert.
C40_WitnessFlippedAgain ==
    \E i \in Processed :
        /\ DOMAIN storedAt(i) = DOMAIN getDefaultTargetState
        /\ priorAt(i).status = "OUT"
        /\ newAt(i).status = "IN"
        /\ restockCallsFor(nameAt(i)) # <<>>

====
